---- MODULE Spec2Model ----
(***************************************************************************)
(* Knowledge-graph construction engine of local-rag                        *)
(* (src/src/storage/knowledge_graph.py, src/src/storage/neo4j_graph.py):   *)
(* EntityExtractor, ConceptClusterer, TemporalGraphBuilder and the         *)
(* KnowledgeGraphBuilder pipeline over a Neo4j store.                      *)
(*                                                                         *)
(* Text is a sequence of one-character strings.  Python indices are        *)
(* 0-based; sequence positions here are 1-based and are converted where a  *)
(* Python index is the result (Find).                                      *)
(***************************************************************************)
EXTENDS Integers, Sequences, FiniteSets, TLC

VARIABLES
    x_text,        \* EntityExtractor: the text under extraction
    x_pc,          \* position of the extraction scenario
    x_inst,        \* extractor instance that served the latest call
    x_entities,    \* result of the latest extract_entities call
    x_rels,        \* result of the latest extract_relationships call
    x_ids1,        \* ids returned by the first extract_entities call
    entity_cache,  \* EntityExtractor.entity_cache, per instance
    now,           \* datetime.utcnow(), as a tick count
    hashOrder,     \* iteration order of the concept_keywords set in this process
    c_provider,    \* ConceptClusterer.embedding_model
    c_cache,       \* ConceptClusterer.embeddings_cache
    c_entities,    \* entities argument of the cluster_entities call
    c_threshold,   \* similarity_threshold argument, a fraction <<p, q>>
    c_result,      \* what the cluster_entities call returned or raised
    c_pc,          \* position of the clustering scenario
    c_merged,      \* the merge_clusters call: its cluster_names argument and the
                   \* dict it returned, name -> cluster
    c_invoked,     \* the embed_query calls made on the provider so far: for each
                   \* the id of the entity and the name passed
    temporal_index,\* TemporalGraphBuilder.temporal_index: id -> list of records
    t_keys,        \* the keys of temporal_index in insertion order
    t_call,        \* the latest TemporalGraphBuilder call and what it returned
    graph,         \* the Neo4j database: its nodes and its relationships
    kb,            \* KnowledgeGraphBuilder instances: fields, and the locals and
                   \* position of the build_graph_from_chunks call in progress
    store_call     \* the Neo4jGraphStore: the latest call on it (after the builds also
                   \* on the builder) and how it ended

extractVars == <<x_text, x_pc, x_inst, x_entities, x_rels, x_ids1, entity_cache>>

clusterVars ==
    <<c_provider, c_cache, c_entities, c_threshold, c_result, c_pc, c_merged, c_invoked>>

temporalVars == <<temporal_index, t_keys, t_call>>

graphVars == <<graph, kb, store_call>>

vars == <<extractVars, clusterVars, temporalVars, graphVars, now, hashOrder>>

----------------------------------------------------------------------------
(* Bounds of the model *)

\* words of a generated text
MaxWords == 3

\* length of the long filler between two words of a generated text
GapLen == 345

\* ticks of the clock
MaxClock == 4

\* entities in the list given to cluster_entities
MaxEntities == 3

\* records added to the temporal index
MaxRecords == 3

\* chunks of a document given to build_graph_from_chunks
MaxChunks == 2

\* nodes in the database of the store runs
MaxNodes == 3

----------------------------------------------------------------------------
(* Characters *)

UpperChars ==
    { "A", "B", "C", "D", "E", "F", "G", "H", "I", "J", "K", "L", "M", "N", "O", "P", "Q", "R", "S", "T", "U", "V", "W", "X", "Y", "Z" }

LowerChars ==
    { "a", "b", "c", "d", "e", "f", "g", "h", "i", "j", "k", "l", "m", "n", "o", "p", "q", "r", "s", "t", "u", "v", "w", "x", "y", "z" }

DigitChars ==
    { "0", "1", "2", "3", "4", "5", "6", "7", "8", "9" }

UpperToLower ==
    ("A" :> "a") @@ ("B" :> "b") @@ ("C" :> "c") @@ ("D" :> "d") @@ ("E" :> "e") @@ ("F" :> "f") @@
    ("G" :> "g") @@ ("H" :> "h") @@ ("I" :> "i") @@ ("J" :> "j") @@ ("K" :> "k") @@ ("L" :> "l") @@
    ("M" :> "m") @@ ("N" :> "n") @@ ("O" :> "o") @@ ("P" :> "p") @@ ("Q" :> "q") @@ ("R" :> "r") @@
    ("S" :> "s") @@ ("T" :> "t") @@ ("U" :> "u") @@ ("V" :> "v") @@ ("W" :> "w") @@ ("X" :> "x") @@
    ("Y" :> "y") @@ ("Z" :> "z")

----------------------------------------------------------------------------
(* Constants of the extractor *)

\* confidence of a pattern match, 0.8, in tenths
PatternConfidence == 8

\* confidence of a keyword match, 0.7, in tenths
KeywordConfidence == 7

\* co-occurrence window in characters; weights are in units of 1/Window
Window == 500

\* the weight floor 0.3, in units of 1/500
WeightFloor == 150

OrgSuffixes ==
    << <<"I", "n", "c">>,
       <<"L", "L", "C">>,
       <<"L", "t", "d">>,
       <<"C", "o", "r", "p">>,
       <<"C", "o">>,
       <<"C", "o", "r", "p", "o", "r", "a", "t", "i", "o", "n">>,
       <<"C", "o", "m", "p", "a", "n", "y">>,
       <<"G", "r", "o", "u", "p">> >>

OrgKeywords ==
    << <<"G", "o", "o", "g", "l", "e">>,
       <<"A", "p", "p", "l", "e">>,
       <<"M", "i", "c", "r", "o", "s", "o", "f", "t">>,
       <<"M", "e", "t", "a">>,
       <<"A", "m", "a", "z", "o", "n">>,
       <<"O", "p", "e", "n", "A", "I">>,
       <<"D", "e", "e", "p", "M", "i", "n", "d">> >>

TechKeywords1 ==
    << <<"P", "y", "t", "h", "o", "n">>,
       <<"J", "a", "v", "a", "S", "c", "r", "i", "p", "t">>,
       <<"T", "y", "p", "e", "S", "c", "r", "i", "p", "t">>,
       <<"G", "o">>,
       <<"R", "u", "s", "t">>,
       <<"C", "+", "+">>,
       <<"J", "a", "v", "a">>,
       <<"C", "#">> >>

TechKeywords2 ==
    << <<"T", "e", "n", "s", "o", "r", "F", "l", "o", "w">>,
       <<"P", "y", "T", "o", "r", "c", "h">>,
       <<"F", "a", "s", "t", "A", "P", "I">>,
       <<"D", "j", "a", "n", "g", "o">>,
       <<"F", "l", "a", "s", "k">>,
       <<"P", "o", "s", "t", "g", "r", "e", "S", "Q", "L">>,
       <<"N", "e", "o", "4", "j">> >>

TechKeywords3 ==
    << <<"A", "W", "S">>,
       <<"A", "z", "u", "r", "e">>,
       <<"G", "C", "P">>,
       <<"K", "u", "b", "e", "r", "n", "e", "t", "e", "s">>,
       <<"D", "o", "c", "k", "e", "r">>,
       <<"K", "u", "b", "e", "r", "n", "e", "t", "e", "s">> >>

LocKeywords1 ==
    << <<"N", "e", "w", " ", "Y", "o", "r", "k">>,
       <<"S", "a", "n", " ", "F", "r", "a", "n", "c", "i", "s", "c", "o">>,
       <<"L", "o", "n", "d", "o", "n">>,
       <<"T", "o", "k", "y", "o">>,
       <<"B", "e", "r", "l", "i", "n">>,
       <<"P", "a", "r", "i", "s">> >>

LocKeywords2 ==
    << <<"U", "S", "A">>,
       <<"U", "K">>,
       <<"C", "h", "i", "n", "a">>,
       <<"J", "a", "p", "a", "n">>,
       <<"G", "e", "r", "m", "a", "n", "y">>,
       <<"F", "r", "a", "n", "c", "e">>,
       <<"I", "n", "d", "i", "a">> >>

concept_keywords ==
    << <<"m", "a", "c", "h", "i", "n", "e", " ", "l", "e", "a", "r", "n", "i", "n", "g">>,
       <<"d", "e", "e", "p", " ", "l", "e", "a", "r", "n", "i", "n", "g">>,
       <<"n", "e", "u", "r", "a", "l", " ", "n", "e", "t", "w", "o", "r", "k">>,
       <<"d", "a", "t", "a", " ", "s", "c", "i", "e", "n", "c", "e">>,
       <<"a", "r", "t", "i", "f", "i", "c", "i", "a", "l", " ", "i", "n", "t", "e", "l", "l", "i", "g", "e", "n", "c", "e">>,
       <<"n", "l", "p">>,
       <<"e", "m", "b", "e", "d", "d", "i", "n", "g", "s">>,
       <<"t", "r", "a", "n", "s", "f", "o", "r", "m", "e", "r", "s">>,
       <<"l", "l", "m">>,
       <<"r", "a", "g">>,
       <<"v", "e", "c", "t", "o", "r", " ", "d", "a", "t", "a", "b", "a", "s", "e">> >>
WhitespaceChars ==
    { " ", "\t", "\n" }

\* what indexing past either end of the text yields in the matchers below
NoChar == ""

At(t, i) ==
    IF i >= 1 /\ i <= Len(t) THEN t[i] ELSE NoChar

\* \w of the re module (ASCII letters, digits, underscore)
WordChars ==
    UpperChars \cup LowerChars \cup DigitChars \cup {"_"}

IsWordChar(c) ==
    c \in WordChars

\* \b standing before position i (i = Len(t) + 1 is the end of the text)
WordBoundary(t, i) ==
    IsWordChar(At(t, i - 1)) # IsWordChar(At(t, i))

\* str.lower() on one character
ToLower(c) ==
    IF c \in DOMAIN UpperToLower THEN UpperToLower[c] ELSE c

\* str.lower()
Lower(t) ==
    SubSeq([i \in 1..Len(t) |-> ToLower(t[i])], 1, Len(t))

Min(S) ==
    CHOOSE m \in S : \A o \in S : m <= o

Max2(a, b) ==
    IF a >= b THEN a ELSE b

Abs(a) ==
    IF a >= 0 THEN a ELSE 0 - a

\* a greedy [S]+ or \s+ that nothing after it can give back: the first position
\* at or after i whose character is not in S
RECURSIVE SkipClass(_, _, _)
SkipClass(t, i, S) ==
    IF At(t, i) \in S THEN SkipClass(t, i + 1, S) ELSE i

\* the literal lit stands at position i
LitAt(t, i, lit) ==
    /\ i + Len(lit) - 1 <= Len(t)
    /\ t[i] = lit[1]
    /\ SubSeq(t, i, i + Len(lit) - 1) = lit

\* (?:a1|a2|...)\b at position i: the end of the first alternative, in the
\* order written, that is followed by a word boundary; 0 when none is
AltThenBoundary(t, i, alts) ==
    LET ok == { k \in 1..Len(alts) :
                  LitAt(t, i, alts[k]) /\ WordBoundary(t, i + Len(alts[k])) }
    IN  IF ok = {} THEN 0 ELSE i + Len(alts[Min(ok)])

\* str.find: the 0-based index of the first occurrence of sub, or -1
Find(t, sub) ==
    LET hits == { i \in 1..(Len(t) - Len(sub) + 1) : LitAt(t, i, sub) }
    IN  IF hits = {} THEN -1 ELSE Min(hits) - 1

----------------------------------------------------------------------------
(* EntityType, ENTITY_PATTERNS *)

EntityType ==
    { "PERSON", "ORGANIZATION", "CONCEPT", "LOCATION", "TECHNOLOGY",
      "PROJECT", "EVENT", "DOCUMENT", "CHUNK" }

\* EntityType.value of the types the extractor produces, as characters
TypeValue ==
    [ PERSON |-> <<"P", "E", "R", "S", "O", "N">>,
      ORGANIZATION |-> <<"O", "R", "G", "A", "N", "I", "Z", "A", "T", "I", "O", "N">>,
      TECHNOLOGY |-> <<"T", "E", "C", "H", "N", "O", "L", "O", "G", "Y">>,
      LOCATION |-> <<"L", "O", "C", "A", "T", "I", "O", "N">>,
      CONCEPT |-> <<"C", "O", "N", "C", "E", "P", "T">> ]

\* The matchers return the position after the match, or 0 for no match.

\* \b[A-Z][a-z]+ [A-Z][a-z]+\b
MatchFirstLast(t, i) ==
    LET b == SkipClass(t, i + 1, LowerChars)
        c == SkipClass(t, b + 2, LowerChars)
    IN  IF /\ WordBoundary(t, i)
           /\ At(t, i) \in UpperChars
           /\ b > i + 1
           /\ At(t, b) = " "
           /\ At(t, b + 1) \in UpperChars
           /\ c > b + 2
           /\ WordBoundary(t, c)
        THEN c ELSE 0

\* \b[A-Z]\.?\s+[A-Z][a-z]+\b
MatchInitialLast(t, i) ==
    LET d == IF At(t, i + 1) = "." THEN i + 2 ELSE i + 1
        e == SkipClass(t, d, WhitespaceChars)
        f == SkipClass(t, e + 1, LowerChars)
    IN  IF /\ WordBoundary(t, i)
           /\ At(t, i) \in UpperChars
           /\ e > d
           /\ At(t, e) \in UpperChars
           /\ f > e + 1
           /\ WordBoundary(t, f)
        THEN f ELSE 0

\* \b[A-Z][a-z]+(?:\s+(?:Inc|LLC|Ltd|Corp|Co|Corporation|Company|Group))\b
MatchOrgSuffix(t, i) ==
    LET b == SkipClass(t, i + 1, LowerChars)
        e == SkipClass(t, b, WhitespaceChars)
    IN  IF /\ WordBoundary(t, i)
           /\ At(t, i) \in UpperChars
           /\ b > i + 1
           /\ e > b
        THEN AltThenBoundary(t, e, OrgSuffixes) ELSE 0

\* \b(?:k1|k2|...)\b
MatchKeywords(t, i, keywords) ==
    IF WordBoundary(t, i) THEN AltThenBoundary(t, i, keywords) ELSE 0

\* ENTITY_PATTERNS.items(), flattened in dict and list order
ENTITY_PATTERNS ==
    << [entity_type |-> "PERSON", pattern |-> "FirstLast"],
       [entity_type |-> "PERSON", pattern |-> "InitialLast"],
       [entity_type |-> "ORGANIZATION", pattern |-> "OrgSuffix"],
       [entity_type |-> "ORGANIZATION", pattern |-> "OrgKeywords"],
       [entity_type |-> "TECHNOLOGY", pattern |-> "TechKeywords1"],
       [entity_type |-> "TECHNOLOGY", pattern |-> "TechKeywords2"],
       [entity_type |-> "TECHNOLOGY", pattern |-> "TechKeywords3"],
       [entity_type |-> "LOCATION", pattern |-> "LocKeywords1"],
       [entity_type |-> "LOCATION", pattern |-> "LocKeywords2"] >>

\* re.match of one pattern at position i
Match(p, t, i) ==
    CASE p = "FirstLast" -> MatchFirstLast(t, i)
      [] p = "InitialLast" -> MatchInitialLast(t, i)
      [] p = "OrgSuffix" -> MatchOrgSuffix(t, i)
      [] p = "OrgKeywords" -> MatchKeywords(t, i, OrgKeywords)
      [] p = "TechKeywords1" -> MatchKeywords(t, i, TechKeywords1)
      [] p = "TechKeywords2" -> MatchKeywords(t, i, TechKeywords2)
      [] p = "TechKeywords3" -> MatchKeywords(t, i, TechKeywords3)
      [] p = "LocKeywords1" -> MatchKeywords(t, i, LocKeywords1)
      [] p = "LocKeywords2" -> MatchKeywords(t, i, LocKeywords2)

\* the positions where \b holds; every pattern of ENTITY_PATTERNS begins with \b
Boundaries(t) ==
    { i \in 1..Len(t) : WordBoundary(t, i) }

\* re.finditer: leftmost matches, left to right, none overlapping an earlier one;
\* starts is the set of positions where the pattern matches
RECURSIVE FindIterFrom(_, _, _, _)
FindIterFrom(p, t, starts, from) ==
    LET rest == { i \in starts : i >= from }
    IN  IF rest = {} THEN << >>
        ELSE LET s == Min(rest)
                 e == Match(p, t, s)
             IN  << SubSeq(t, s, e - 1) >> \o FindIterFrom(p, t, starts, e)

finditer(p, t, boundaries) ==
    FindIterFrom(p, t, { i \in boundaries : Match(p, t, i) > 0 }, 1)

\* every match of every pattern, in the order the nested loops visit them
RECURSIVE MatchesFrom(_, _, _)
MatchesFrom(t, boundaries, k) ==
    IF k > Len(ENTITY_PATTERNS) THEN << >>
    ELSE LET names == finditer(ENTITY_PATTERNS[k].pattern, t, boundaries)
         IN  [ n \in 1..Len(names) |->
                 [name |-> names[n], entity_type |-> ENTITY_PATTERNS[k].entity_type] ]
             \o MatchesFrom(t, boundaries, k + 1)

----------------------------------------------------------------------------
(* Entity, Relationship, EntityExtractor *)

None == "None"

DigitSeq ==
    << "0", "1", "2", "3", "4", "5", "6", "7", "8", "9" >>

\* datetime.utcnow().isoformat() at tick n of the clock: fixed width, zero padded
IsoFormat(n) ==
    << DigitSeq[(n \div 10) + 1], DigitSeq[(n % 10) + 1] >>

\* hashlib.md5(...).hexdigest()[:12]: a fixed function of the bytes hashed and of
\* nothing else; the digest is written as its argument, tagged
Md5Hex12(bytes) ==
    << "md5", bytes >>

\* an id that also hashes the time of the call
EntityId_Timestamped(name, entity_type) ==
    Md5Hex12(name \o << "_" >> \o TypeValue[entity_type] \o IsoFormat(now))

\* f"{name}_{entity_type.value}" hashed
EntityId(name, entity_type) ==
    Md5Hex12(name \o << "_" >> \o TypeValue[entity_type])

\* Entity(...) with __post_init__: first_seen = utcnow(), last_seen = first_seen
Entity(id, name, entity_type, confidence) ==
    [ id |-> id, name |-> name, entity_type |-> entity_type,
      description |-> None, confidence |-> confidence,
      first_seen |-> IsoFormat(now), last_seen |-> IsoFormat(now),
      mention_count |-> 1 ]

\* the pattern loop without the seen_names test: every match gives an entity
RECURSIVE PatternLoop_EveryMatch(_, _, _)
PatternLoop_EveryMatch(ms, entities, seen_names) ==
    IF ms = << >> THEN [entities |-> entities, seen_names |-> seen_names]
    ELSE LET m == Head(ms)
         IN  PatternLoop_EveryMatch(Tail(ms),
                 Append(entities,
                        Entity(EntityId(m.name, m.entity_type), m.name,
                               m.entity_type, PatternConfidence)),
                 seen_names \cup {m.name})

\* the pattern loop of extract_entities over the remaining matches
RECURSIVE PatternLoop(_, _, _)
PatternLoop(ms, entities, seen_names) ==
    IF ms = << >> THEN [entities |-> entities, seen_names |-> seen_names]
    ELSE LET m == Head(ms)
         IN  IF m.name \notin seen_names
             THEN PatternLoop(Tail(ms),
                      Append(entities,
                             Entity(EntityId(m.name, m.entity_type), m.name,
                                    m.entity_type, PatternConfidence)),
                      seen_names \cup {m.name})
             ELSE PatternLoop(Tail(ms), entities, seen_names)

\* the two iteration orders of the concept_keywords set that the model draws
\* from: as written and reversed
KeywordOrder(order) ==
    IF order = "listed" THEN concept_keywords
    ELSE [ k \in 1..Len(concept_keywords) |->
             concept_keywords[Len(concept_keywords) + 1 - k] ]

\* the keyword loop of extract_entities over the remaining keywords
RECURSIVE KeywordLoop(_, _, _, _)
KeywordLoop(kws, text_lower, entities, seen_names) ==
    IF kws = << >> THEN entities
    ELSE LET keyword == Head(kws)
             entity_id == EntityId(keyword, "CONCEPT")
         IN  IF Find(text_lower, keyword) # -1 /\ entity_id \notin seen_names
             THEN KeywordLoop(Tail(kws), text_lower,
                      Append(entities,
                             Entity(entity_id, keyword, "CONCEPT", KeywordConfidence)),
                      seen_names \cup {entity_id})
             ELSE KeywordLoop(Tail(kws), text_lower, entities, seen_names)

extract_entities(text) ==
    LET byPattern == PatternLoop(MatchesFrom(text, Boundaries(text), 1), << >>, {})
    IN  KeywordLoop(KeywordOrder(hashOrder), Lower(text),
                    byPattern.entities, byPattern.seen_names)

\* min in place of max
CoOccurWeight_Min(distance) ==
    IF WeightFloor <= Window - distance THEN WeightFloor ELSE Window - distance

\* weight = max(0.3, 1.0 - distance / 500.0), in units of 1/500
CoOccurWeight(distance) ==
    Max2(WeightFloor, Window - distance)

Relationship(source_id, target_id, relation_type, weight, confidence) ==
    [ source_id |-> source_id, target_id |-> target_id,
      relation_type |-> relation_type, weight |-> weight,
      confidence |-> confidence, timestamp |-> IsoFormat(now) ]

\* the nested loops without the test that both names were found
RECURSIVE PairLoop_NotFoundIgnored(_, _, _, _)
PairLoop_NotFoundIgnored(text_lower, entities, i, j) ==
    IF i > Len(entities) THEN << >>
    ELSE IF j > Len(entities)
         THEN PairLoop_NotFoundIgnored(text_lower, entities, i + 1, i + 2)
    ELSE LET idx1 == Find(text_lower, Lower(entities[i].name))
             idx2 == Find(text_lower, Lower(entities[j].name))
             distance == Abs(idx1 - idx2)
             rest == PairLoop_NotFoundIgnored(text_lower, entities, i, j + 1)
         IN  IF distance < Window
             THEN << Relationship(entities[i].id, entities[j].id, "CO_OCCURS",
                                  CoOccurWeight(distance), CoOccurWeight(distance)) >>
                  \o rest
             ELSE rest

\* the nested loops of extract_relationships from the pair (i, j) on
RECURSIVE PairLoop(_, _, _, _)
PairLoop(text_lower, entities, i, j) ==
    IF i > Len(entities) THEN << >>
    ELSE IF j > Len(entities) THEN PairLoop(text_lower, entities, i + 1, i + 2)
    ELSE LET idx1 == Find(text_lower, Lower(entities[i].name))
             idx2 == Find(text_lower, Lower(entities[j].name))
             distance == Abs(idx1 - idx2)
             rest == PairLoop(text_lower, entities, i, j + 1)
         IN  IF idx1 # -1 /\ idx2 # -1 /\ distance < Window
             THEN << Relationship(entities[i].id, entities[j].id, "CO_OCCURS",
                                  CoOccurWeight(distance), CoOccurWeight(distance)) >>
                  \o rest
             ELSE rest

extract_relationships(text, entities) ==
    PairLoop(Lower(text), entities, 1, 2)

----------------------------------------------------------------------------
(* ConceptClusterer *)

(* An embedding is [dim, v]: dim is its dimension and v its leading            *)
(* components, all later components being 0.  Components are integers, and     *)
(* comparisons of the cosine similarity with a threshold are decided exactly.  *)

\* dimension of the zero vector stored after a failed embedding, np.zeros(384)
FallbackDim == 384

\* the default similarity_threshold, 0.7
DefaultThreshold == << 7, 10 >>

\* embed_query raised
Raise == << "raise" >>

\* embedding_model is None
NoModel ==
    [ kind |-> "None" ]

ZeroFallback ==
    [ dim |-> FallbackDim, v |-> << 0, 0 >> ]

\* np.dot(a, b)
Dot(a, b) ==
    a.v[1] * b.v[1] + a.v[2] * b.v[2]

\* similarity >= threshold without the 1e-10 in the denominator
SimilarityAtLeast_NoEpsilon(a, b, threshold) ==
    LET p == threshold[1]
        q == threshold[2]
        d == Dot(a, b)
        n2 == Dot(a, a) * Dot(b, b)
    IN  IF p = 0 THEN d >= 0
        ELSE IF p > 0 THEN d > 0 /\ (q * d) * (q * d) >= p * p * n2
        ELSE d >= 0 \/ (q * d) * (q * d) <= p * p * n2

\* np.dot(a, b) / (norm(a) * norm(b) + 1e-10) >= p / q, for integer vectors:
\* with d = a.b and n2 = |a|^2 |b|^2 it is  q d >= p (sqrt(n2) + 1e-10);  the
\* two sides of the squared comparison are integers, so the 1e-10 decides
\* exactly the case where they are equal
SimilarityAtLeast(a, b, threshold) ==
    LET p == threshold[1]
        q == threshold[2]
        d == Dot(a, b)
        n2 == Dot(a, a) * Dot(b, b)
    IN  IF p = 0 THEN d >= 0
        ELSE IF p > 0 THEN d > 0 /\ (q * d) * (q * d) > p * p * n2
        ELSE d >= 0 \/ (q * d) * (q * d) <= p * p * n2

\* the increasing sequence of the elements of a set of numbers
RECURSIVE SortedSeq(_)
SortedSeq(S) ==
    IF S = {} THEN << >>
    ELSE << Min(S) >> \o SortedSeq(S \ {Min(S)})

\* one cluster holding everything, in place of one cluster per entity
Singletons_OneCluster(entities) ==
    << entities >>

\* [[entity] for entity in entities]
Singletons(entities) ==
    [ k \in 1..Len(entities) |-> << entities[k] >> ]

\* the embedding loop: embeddings_cache after it
RECURSIVE EmbedLoop(_, _, _, _)
EmbedLoop(entities, k, provider, cache) ==
    IF k > Len(entities) THEN cache
    ELSE LET entity == entities[k]
             response == provider.embed_query[entity.name]
         IN  IF entity.id \in DOMAIN cache
             THEN EmbedLoop(entities, k + 1, provider, cache)
             ELSE EmbedLoop(entities, k + 1, provider,
                      cache @@ (entity.id :>
                          IF response = Raise THEN ZeroFallback
                          ELSE [ dim |-> provider.dim, v |-> response ]))

\* embed_query is called for every entity of the list, cached or not
RECURSIVE EmbedCalls_EveryEntity(_, _, _)
EmbedCalls_EveryEntity(entities, k, cache) ==
    IF k > Len(entities) THEN << >>
    ELSE << [ id |-> entities[k].id, name |-> entities[k].name ] >>
         \o EmbedCalls_EveryEntity(entities, k + 1, cache)

\* the embedding loop: the embed_query calls it makes, in order; one for every
\* entity whose id is not in embeddings_cache when its turn comes
RECURSIVE EmbedCalls(_, _, _)
EmbedCalls(entities, k, cache) ==
    IF k > Len(entities) THEN << >>
    ELSE LET entity == entities[k]
         IN  IF entity.id \in cache
             THEN EmbedCalls(entities, k + 1, cache)
             ELSE << [ id |-> entity.id, name |-> entity.name ] >>
                  \o EmbedCalls(entities, k + 1, cache \cup { entity.id })

\* the greedy loop without the test that j is not yet in a cluster
RECURSIVE GreedyLoop_UsedIgnored(_, _, _, _, _)
GreedyLoop_UsedIgnored(entities, embeddings, threshold, i, used) ==
    IF i > Len(entities) THEN << >>
    ELSE IF i \in used
    THEN GreedyLoop_UsedIgnored(entities, embeddings, threshold, i + 1, used)
    ELSE LET joined == { j \in (i + 1)..Len(entities) :
                           SimilarityAtLeast(embeddings[i], embeddings[j], threshold) }
             order == << i >> \o SortedSeq(joined)
         IN  << [ k \in 1..Len(order) |-> entities[order[k]] ] >>
             \o GreedyLoop_UsedIgnored(entities, embeddings, threshold, i + 1,
                                       used \cup {i} \cup joined)

\* the greedy loop from seed position i on
RECURSIVE GreedyLoop(_, _, _, _, _)
GreedyLoop(entities, embeddings, threshold, i, used) ==
    IF i > Len(entities) THEN << >>
    ELSE IF i \in used
    THEN GreedyLoop(entities, embeddings, threshold, i + 1, used)
    ELSE LET joined == { j \in (i + 1)..Len(entities) :
                           /\ j \notin used
                           /\ SimilarityAtLeast(embeddings[i], embeddings[j], threshold) }
             order == << i >> \o SortedSeq(joined)
         IN  << [ k \in 1..Len(order) |-> entities[order[k]] ] >>
             \o GreedyLoop(entities, embeddings, threshold, i + 1,
                           used \cup {i} \cup joined)

\* cluster_entities: the clusters returned (or that the call raised) and the
\* cache it leaves.  np.array(embeddings) raises on rows of different lengths.
cluster_entities(entities, threshold, provider, cache) ==
    IF entities = << >> \/ provider = NoModel
    THEN [ raised |-> FALSE, clusters |-> Singletons(entities), cache |-> cache,
           invoked |-> << >> ]
    ELSE LET filled == EmbedLoop(entities, 1, provider, cache)
             invoked == EmbedCalls(entities, 1, DOMAIN cache)
             embeddings == [ k \in 1..Len(entities) |-> filled[entities[k].id] ]
         IN  IF \E k \in 1..Len(entities) : embeddings[k].dim # embeddings[1].dim
             THEN [ raised |-> TRUE, clusters |-> << >>, cache |-> filled,
                    invoked |-> invoked ]
             ELSE [ raised |-> FALSE,
                    clusters |-> GreedyLoop(entities, embeddings, threshold, 1, {}),
                    cache |-> filled, invoked |-> invoked ]

\* str(i) of a natural number
RECURSIVE Decimal(_)
Decimal(i) ==
    IF i < 10 THEN << DigitSeq[i + 1] >>
    ELSE Decimal(i \div 10) \o << DigitSeq[(i % 10) + 1] >>

\* the name of every cluster is the fallback name, whatever cluster_names holds
ConceptNameOf_FallbackOnly(cluster_names, i) ==
    << "C", "o", "n", "c", "e", "p", "t", "_" >> \o Decimal(i)

\* cluster_names.get(i, f"Concept_{i}")
ConceptNameOf(cluster_names, i) ==
    IF i \in DOMAIN cluster_names THEN cluster_names[i]
    ELSE << "C", "o", "n", "c", "e", "p", "t", "_" >> \o Decimal(i)

\* the loop of merge_clusters from index i on: result[concept_name] = cluster
RECURSIVE MergeLoop(_, _, _, _)
MergeLoop(clusters, cluster_names, i, result) ==
    IF i >= Len(clusters) THEN result
    ELSE LET concept_name == ConceptNameOf(cluster_names, i)
         IN  MergeLoop(clusters, cluster_names, i + 1,
                       [ n \in DOMAIN result \cup {concept_name} |->
                           IF n = concept_name THEN clusters[i + 1] ELSE result[n] ])

\* merge_clusters: the dict returned, as a function on its keys
merge_clusters(clusters, cluster_names) ==
    MergeLoop(clusters, cluster_names, 0, << >>)

----------------------------------------------------------------------------
(* TemporalGraphBuilder *)

(* Timestamps are strings of digits, compared as Python compares str.  The    *)
(* clock counts days; isoformat() writes it in a fixed width.                 *)

\* TemporalGraphBuilder(time_window=7), in days
time_window == 7

\* ord() of a digit, up to a constant
Ord(c) ==
    CHOOSE k \in 1..Len(DigitSeq) : DigitSeq[k] = c

\* a <= b on str
RECURSIVE StrLE(_, _)
StrLE(a, b) ==
    IF a = << >> THEN TRUE
    ELSE IF b = << >> THEN FALSE
    ELSE IF a[1] = b[1] THEN StrLE(Tail(a), Tail(b))
    ELSE Ord(a[1]) < Ord(b[1])

\* an optional timestamp argument that was left out (None)
Omitted == << None >>

\* timestamp of add_temporal_entity after the default is filled in
AddTimestamp(timestamp) ==
    IF timestamp = Omitted THEN IsoFormat(now) ELSE timestamp

\* temporal_index[entity.id].append({'entity': entity, 'timestamp': timestamp})
\* on the defaultdict
IndexAppend(index, entity, timestamp) ==
    LET record == [ entity |-> entity, timestamp |-> timestamp ]
    IN  IF entity.id \in DOMAIN index
        THEN [ index EXCEPT ![entity.id] = Append(@, record) ]
        ELSE index @@ (entity.id :> << record >>)

\* temporal_index[key] on the defaultdict: a missing key is inserted with an
\* empty list
Subscript(index, key) ==
    IF key \in DOMAIN index THEN index ELSE index @@ (key :> << >>)

\* the index is subscripted without the membership test before it
TimelineIndex_NoMembershipTest(index, entity_id) ==
    Subscript(index, entity_id)

\* temporal_index after get_entity_timeline: the membership test does not
\* insert, and the subscript is reached only for a key that is present
TimelineIndex(index, entity_id) ==
    IF entity_id \notin DOMAIN index THEN index
    ELSE Subscript(index, entity_id)

\* the condition of the scan without the entity_type test
RecordMatches_AnyType(record, entity_type, start_time, end_time) ==
    /\ StrLE(start_time, record.timestamp)
    /\ StrLE(record.timestamp, end_time)

\* entity.entity_type == entity_type and start_time <= timestamp <= end_time
RecordMatches(record, entity_type, start_time, end_time) ==
    /\ record.entity.entity_type = entity_type
    /\ StrLE(start_time, record.timestamp)
    /\ StrLE(record.timestamp, end_time)

\* the entities of the matching records of one list, in order
RECURSIVE ScanRecords(_, _, _, _)
ScanRecords(records, entity_type, start_time, end_time) ==
    IF records = << >> THEN << >>
    ELSE ( IF RecordMatches(Head(records), entity_type, start_time, end_time)
           THEN << Head(records).entity >> ELSE << >> )
         \o ScanRecords(Tail(records), entity_type, start_time, end_time)

\* the loop over temporal_index.items(), in key order
RECURSIVE ScanIndex(_, _, _, _, _)
ScanIndex(index, keys, entity_type, start_time, end_time) ==
    IF keys = << >> THEN << >>
    ELSE ScanRecords(index[Head(keys)], entity_type, start_time, end_time)
         \o ScanIndex(index, Tail(keys), entity_type, start_time, end_time)

query_temporal_entities(entity_type, start_time, end_time) ==
    LET start == IF start_time = Omitted THEN IsoFormat(now - time_window) ELSE start_time
        end == IF end_time = Omitted THEN IsoFormat(now) ELSE end_time
    IN  ScanIndex(temporal_index, t_keys, entity_type, start, end)

\* x placed behind the entries of a sorted timeline that are not above it
RECURSIVE InsertSorted(_, _)
InsertSorted(sorted, x) ==
    IF sorted = << >> THEN << x >>
    ELSE IF StrLE(sorted[Len(sorted)].timestamp, x.timestamp) THEN Append(sorted, x)
    ELSE Append(InsertSorted(SubSeq(sorted, 1, Len(sorted) - 1), x), sorted[Len(sorted)])

RECURSIVE StableSort(_, _)
StableSort(timeline, k) ==
    IF k = 0 THEN << >>
    ELSE InsertSorted(StableSort(timeline, k - 1), timeline[k])

\* the timeline returned as built, not sorted
SortedByTimestamp_Unsorted(timeline) ==
    timeline

\* sorted(timeline, key=lambda x: x[0])
SortedByTimestamp(timeline) ==
    StableSort(timeline, Len(timeline))

\* f"Mentioned in {entity.name}"
MentionedIn(entity) ==
    << "M", "e", "n", "t", "i", "o", "n", "e", "d", " ", "i", "n", " " >> \o entity.name

\* the (timestamp, description) pairs of the id, sorted
get_entity_timeline(entity_id) ==
    IF entity_id \notin DOMAIN temporal_index THEN << >>
    ELSE LET records == temporal_index[entity_id]
         IN  SortedByTimestamp(
                 [ k \in 1..Len(records) |->
                     [ timestamp |-> records[k].timestamp,
                       description |-> MentionedIn(records[k].entity) ] ])

----------------------------------------------------------------------------
(* The Neo4j database and the Cypher statements run against it *)

(* nodes is the list of nodes in creation order, each [label, id, props];      *)
(* rels is the list of relationships, each [type, from, to, props] with from   *)
(* and to positions in nodes.  A statement runs in its own auto-commit         *)
(* transaction: it is applied whole, or it fails and changes nothing.          *)

\* how a session.run ends: it succeeds, the server rejects the statement
\* (neo4j.exceptions.Neo4jError), or the driver fails (ServiceUnavailable,
\* SessionExpired: not Neo4jError subclasses)
Outcomes ==
    { "ok", "Neo4jError", "DriverError" }

EmptyGraph ==
    [ nodes |-> << >>, rels |-> << >> ]

\* no properties
NoProps ==
    << >>

\* MATCH (n:label {id: $id})
MatchNodes(g, label, id) ==
    { n \in 1..Len(g.nodes) : g.nodes[n].label = label /\ g.nodes[n].id = id }

\* MATCH (n {id: $id})
MatchAnyLabel(g, id) ==
    { n \in 1..Len(g.nodes) : g.nodes[n].id = id }

\* CREATE (n:label {id: $id, ...props})
CreateNode(g, label, id, props) ==
    [ g EXCEPT !.nodes = Append(@, [ label |-> label, id |-> id, props |-> props ]) ]

\* CREATE in place of MERGE: a node is added whether or not the id has one
MergeNode_Create(g, label, id, props) ==
    CreateNode(g, label, id, props)

\* MERGE (n:label {id: $id}) SET n.<every property> = ...
MergeNode(g, label, id, props) ==
    IF MatchNodes(g, label, id) = {}
    THEN CreateNode(g, label, id, props)
    ELSE [ g EXCEPT !.nodes =
             SubSeq([ n \in 1..Len(g.nodes) |->
                        IF n \in MatchNodes(g, label, id)
                        THEN [ g.nodes[n] EXCEPT !.props = props ]
                        ELSE g.nodes[n] ], 1, Len(g.nodes)) ]

\* the relationships the pattern (from)-[:type {key}]->(to) matches
MatchRels(g, type, from, to, key) ==
    { r \in 1..Len(g.rels) :
        /\ g.rels[r].type = type
        /\ g.rels[r].from = from
        /\ g.rels[r].to = to
        /\ \A f \in DOMAIN key :
             f \in DOMAIN g.rels[r].props /\ g.rels[r].props[f] = key[f] }

\* CREATE (from)-[:type {props}]->(to)
CreateRel(g, type, from, to, props) ==
    [ g EXCEPT !.rels = Append(@, [ type |-> type, from |-> from, to |-> to,
                                    props |-> props ]) ]

\* MERGE (from)-[r:type {key}]->(to) SET r.<set>, for one row (from, to)
MergeRel(g, type, from, to, key, set) ==
    IF MatchRels(g, type, from, to, key) = {}
    THEN CreateRel(g, type, from, to,
                   IF DOMAIN key = {} /\ DOMAIN set = {} THEN NoProps ELSE key @@ set)
    ELSE IF DOMAIN set = {} THEN g
    ELSE [ g EXCEPT !.rels =
             SubSeq([ r \in 1..Len(g.rels) |->
                        IF r \in MatchRels(g, type, from, to, key)
                        THEN [ g.rels[r] EXCEPT !.props = set @@ @ ]
                        ELSE g.rels[r] ], 1, Len(g.rels)) ]

\* the rows of two MATCH clauses, in the order of the nodes
RowsOf(froms, tos) ==
    LET fs == SortedSeq(froms)
        ts == SortedSeq(tos)
        n == Len(fs) * Len(ts)
    IN  SubSeq([ k \in 1..n |-> << fs[((k - 1) \div Len(ts)) + 1],
                                   ts[((k - 1) % Len(ts)) + 1] >> ], 1, n)

\* the MERGE of a relationship over the remaining rows
RECURSIVE MergeRows(_, _, _, _, _)
MergeRows(g, type, rows, key, set) ==
    IF rows = << >> THEN g
    ELSE MergeRows(MergeRel(g, type, Head(rows)[1], Head(rows)[2], key, set),
                   type, Tail(rows), key, set)

\* the CREATE of a relationship over the remaining rows
RECURSIVE CreateRows(_, _, _, _)
CreateRows(g, type, rows, props) ==
    IF rows = << >> THEN g
    ELSE CreateRows(CreateRel(g, type, Head(rows)[1], Head(rows)[2], props),
                    type, Tail(rows), props)

\* text[:5000] of Neo4jGraphStore.extract_entities_from_chunk
StoreTextLimit == 5000

StoreTruncate(text) ==
    SubSeq(text, 1, IF Len(text) < StoreTextLimit THEN Len(text) ELSE StoreTextLimit)

\* entity_type.lower() of the labels the callers pass
LowerLabel ==
    [ Person |-> "person", Organization |-> "organization" ]

\* f"{entity_type.lower()}_{entity_name.lower().replace(' ', '_')}"
StoreEntityId(entity_name, entity_type) ==
    << LowerLabel[entity_type], "_" >>
    \o [ k \in 1..Len(entity_name) |->
           IF entity_name[k] = " " THEN "_" ELSE ToLower(entity_name[k]) ]

\* MATCH (entity:label {name: $name})
MatchByName(g, label, name) ==
    { n \in 1..Len(g.nodes) :
        /\ g.nodes[n].label = label
        /\ "name" \in DOMAIN g.nodes[n].props
        /\ g.nodes[n].props.name = name }

\* the first statement of extract_entities_from_chunk: CREATE (chunk:Chunk ...)
StoreChunkStatement(g, chunk_id, text) ==
    CreateNode(g, "Chunk", chunk_id, [ text |-> StoreTruncate(text), created_at |-> now ])

\* its second statement: MATCH chunk, MATCH doc, CREATE (chunk)-[:FROM_DOCUMENT]->(doc)
StoreFromDocumentStatement(g, chunk_id, doc_id) ==
    CreateRows(g, "FROM_DOCUMENT",
               RowsOf(MatchNodes(g, "Chunk", chunk_id), MatchNodes(g, "Document", doc_id)),
               NoProps)

\* MERGE (entity:<entity_type> {name: $name}) ON CREATE SET entity.id = ...
StoreEntityMerge(g, entity_name, entity_type) ==
    IF MatchByName(g, entity_type, entity_name) = {}
    THEN CreateNode(g, entity_type, StoreEntityId(entity_name, entity_type),
                    [ name |-> entity_name, created_at |-> now ])
    ELSE g

\* the loop over the (entity_name, entity_type) pairs from the k-th on: the
\* MERGE, the MENTIONED_IN edges from the nodes that have the id the MERGE
\* returned, and except Exception around both
RECURSIVE StoreEntityLoop(_, _, _, _, _)
StoreEntityLoop(g, chunk_id, entities, k, outcomes) ==
    IF k > Len(entities) THEN g
    ELSE LET merged == StoreEntityMerge(g, entities[k].name, entities[k].entity_type)
             record == merged.nodes[Min(MatchByName(merged, entities[k].entity_type,
                                                    entities[k].name))]
             mentioned == CreateRows(merged, "MENTIONED_IN",
                                     RowsOf(MatchAnyLabel(merged, record.id),
                                            MatchNodes(merged, "Chunk", chunk_id)),
                                     NoProps)
         IN  StoreEntityLoop(IF outcomes[1] # "ok" THEN g
                             ELSE IF outcomes[2] # "ok" THEN merged
                             ELSE mentioned,
                             chunk_id, entities, k + 1, outcomes)

----------------------------------------------------------------------------
(* KnowledgeGraphBuilder *)

\* the KnowledgeGraphBuilder instances of a run: one, or two that work on one
\* database at the same time
Builders ==
    { "kb1" }

TwoBuilders ==
    { "kb1", "kb2" }

\* text[:1000] of _create_chunk_node
ChunkTextLimit == 1000

ZeroStats ==
    [ entities_extracted |-> 0, relationships_extracted |-> 0,
      clusters_created |-> 0, nodes_created |-> 0, relationships_created |-> 0 ]

\* a builder after __init__: its fields, and no call in progress.  persisted
\* counts the relationship statements of the call that the database applied
\* to at least one row, skipped the MENTIONS statements of the call that the
\* server rejected; verified says that the RETURN 1 of __init__ has succeeded;
\* returned is the database and the skipped count at the return of the call
\* before the one in progress.
NewBuilder(embedding_model, enable_clustering) ==
    [ embedding_model |-> embedding_model, enable_clustering |-> enable_clustering,
      embeddings_cache |-> << >>,
      pc |-> "idle", chunks |-> << >>, document_id |-> << >>,
      document_name |-> << >>, stats |-> ZeroStats, i |-> 0,
      entities |-> << >>, relationships |-> << >>, k |-> 0,
      all_entities |-> << >>, clusters |-> << >>, cluster_idx |-> 0,
      error |-> None, failed_at |-> None, persisted |-> 0, skipped |-> 0,
      verified |-> TRUE,
      calls |-> 0, returned |-> [ graph |-> EmptyGraph, skipped |-> 0 ] ]

\* f"{document_id}_chunk_{i}"
ChunkId(document_id, i) ==
    document_id \o << "chunk", i >>

\* f"concept_{document_id}_{cluster_idx}"
ConceptId(document_id, cluster_idx) ==
    << "concept" >> \o document_id \o << cluster_idx >>

\* text[:1000]
Truncate(text) ==
    SubSeq(text, 1, IF Len(text) < ChunkTextLimit THEN Len(text) ELSE ChunkTextLimit)

\* the statement of _create_document_node
DocumentStatement(g, doc_id, doc_name) ==
    MergeNode(g, "Document", doc_id,
              [ name |-> doc_name, created_at |-> now, updated_at |-> now ])

\* the statement of _create_chunk_node
ChunkStatement(g, chunk_id, text, document_id) ==
    LET merged == MergeNode(g, "Chunk", chunk_id,
                            [ text |-> Truncate(text), created_at |-> now ])
    IN  MergeRows(merged, "FROM_DOCUMENT",
                  RowsOf(MatchNodes(merged, "Chunk", chunk_id),
                         MatchNodes(merged, "Document", document_id)),
                  NoProps, NoProps)

\* depth: int = 2 of get_entity_context
DefaultDepth == 2

\* the paths (e)-[r*0..depth]-(neighbor) from node n: the relationships of each,
\* none of them twice, and the node it ends in
RECURSIVE PathsFrom(_, _, _)
PathsFrom(g, n, depth) ==
    IF depth = 0 THEN { [ r |-> << >>, neighbor |-> n ] }
    ELSE LET shorter == PathsFrom(g, n, depth - 1)
             steps == { pq \in { path \in shorter : Len(path.r) = depth - 1 }
                               \X (1..Len(g.rels)) :
                          /\ pq[1].neighbor \in { g.rels[pq[2]].from, g.rels[pq[2]].to }
                          /\ \A k \in 1..Len(pq[1].r) : pq[1].r[k] # pq[2] }
         IN  shorter \cup
             { [ r |-> Append(pq[1].r, pq[2]),
                 neighbor |-> IF g.rels[pq[2]].from = pq[1].neighbor
                              THEN g.rels[pq[2]].to
                              ELSE g.rels[pq[2]].from ] : pq \in steps }

\* the {} that get_entity_context returns when the query gives no row
EmptyContext ==
    [ found |-> FALSE ]

\* the type written is the name of the EntityType member in lower case
EntityStatement_LowerType(g, entity) ==
    MergeNode(g, "Entity", entity.id,
              [ name |-> entity.name, type |-> Lower(TypeValue[entity.entity_type]),
                description |-> entity.description, confidence |-> entity.confidence,
                first_seen |-> entity.first_seen, last_seen |-> entity.last_seen,
                mention_count |-> entity.mention_count ])

\* the statement of _create_entity_node
EntityStatement(g, entity) ==
    MergeNode(g, "Entity", entity.id,
              [ name |-> entity.name, type |-> TypeValue[entity.entity_type],
                description |-> entity.description, confidence |-> entity.confidence,
                first_seen |-> entity.first_seen, last_seen |-> entity.last_seen,
                mention_count |-> entity.mention_count ])

\* the statement of _create_chunk_entity_relationship
MentionsStatement(g, chunk_id, entity_id) ==
    MergeRows(g, "MENTIONS",
              RowsOf(MatchNodes(g, "Chunk", chunk_id), MatchNodes(g, "Entity", entity_id)),
              NoProps, NoProps)

\* the rows the two MATCH clauses of _create_relationship give
RelationshipRows(g, rel) ==
    RowsOf(MatchNodes(g, "Entity", rel.source_id), MatchNodes(g, "Entity", rel.target_id))

\* the statement of _create_relationship
RelationshipStatement(g, rel) ==
    MergeRows(g, rel.relation_type, RelationshipRows(g, rel),
              [ timestamp |-> rel.timestamp ],
              [ confidence |-> rel.confidence, weight |-> rel.weight ])

\* " / ".join([e.name for e in cluster[:3]]): the names joined, as their list
ConceptName(cluster) ==
    [ k \in 1..(IF Len(cluster) < 3 THEN Len(cluster) ELSE 3) |-> cluster[k].name ]

\* UNWIND $entity_ids ... MATCH (e:Entity {id: entity_id}): the rows from the
\* k-th id on
RECURSIVE ClusterRows(_, _, _, _)
ClusterRows(g, concept_id, cluster, k) ==
    IF k > Len(cluster) THEN << >>
    ELSE RowsOf(MatchNodes(g, "Concept", concept_id),
                MatchNodes(g, "Entity", cluster[k].id))
         \o ClusterRows(g, concept_id, cluster, k + 1)

\* the statement of _create_concept_from_cluster
ConceptStatement(g, cluster, document_id, cluster_idx) ==
    LET concept_id == ConceptId(document_id, cluster_idx)
        merged == MergeNode(g, "Concept", concept_id,
                            [ name |-> SubSeq(ConceptName(cluster), 1,
                                              Len(ConceptName(cluster))),
                              entity_count |-> Len(cluster), created_at |-> now ])
    IN  MergeRows(merged, "CLUSTERS", ClusterRows(merged, concept_id, cluster, 1),
                  NoProps, NoProps)

\* get_entity_context(entity_id, depth) once its query has run: .single() is
\* the first row, one row per matching node; the node's properties with its
\* id, and the numbers of distinct neighbors and of distinct paths
get_entity_context(g, entity_id, depth) ==
    IF MatchNodes(g, "Entity", entity_id) = {} THEN EmptyContext
    ELSE LET e == Min(MatchNodes(g, "Entity", entity_id))
             paths == PathsFrom(g, e, depth)
         IN  [ found |-> TRUE,
               entity |-> [ id |-> g.nodes[e].id ] @@ g.nodes[e].props,
               neighbors_count |-> Cardinality({ p.neighbor : p \in paths }),
               relationships_count |-> Cardinality({ p.r : p \in paths }) ]

\* _verify_connection that logs the exception and returns
AfterVerifyConnection_Logged(b, outcome) ==
    [ b EXCEPT !.pc = "idle", !.verified = (outcome = "ok") ]

\* the end of __init__: _verify_connection has run RETURN 1; an exception is
\* logged and raised again, so that the caller gets no object
AfterVerifyConnection(b, outcome) ==
    IF outcome = "ok" THEN [ b EXCEPT !.pc = "idle", !.verified = TRUE ]
    ELSE [ b EXCEPT !.pc = "no_object", !.error = outcome, !.failed_at = "__init__" ]

\* a failure of the entity write is passed over: the loop goes on with the
\* MENTIONS write
Raised_EntitySkipped(b, at, error) ==
    IF at = "entity" THEN [ b EXCEPT !.pc = "mentions" ]
    ELSE [ b EXCEPT !.pc = "raised", !.failed_at = at, !.error = error ]

\* an exception leaves build_graph_from_chunks
Raised(b, at, error) ==
    [ b EXCEPT !.pc = "raised", !.failed_at = at, !.error = error ]

\* the end of a pass of the chunk loop: the next chunk, or the clustering
NextChunk(b) ==
    IF b.i + 1 < Len(b.chunks)
    THEN [ b EXCEPT !.pc = "chunk", !.i = @ + 1 ]
    ELSE [ b EXCEPT !.pc = "cluster" ]

\* the relationships are written as soon as one entity is
NextEntity_RelationshipsEarly(b) ==
    IF b.relationships # << >> THEN [ b EXCEPT !.pc = "relationship", !.k = 1 ]
    ELSE IF b.k < Len(b.entities) THEN [ b EXCEPT !.pc = "entity", !.k = @ + 1 ]
    ELSE NextChunk(b)

\* after the writes of entity k: the next entity, the relationships, or the
\* end of the pass
NextEntity(b) ==
    IF b.k < Len(b.entities) THEN [ b EXCEPT !.pc = "entity", !.k = @ + 1 ]
    ELSE IF b.relationships # << >> THEN [ b EXCEPT !.pc = "relationship", !.k = 1 ]
    ELSE NextChunk(b)

\* after the write of relationship k
NextRelationship(b) ==
    IF b.k < Len(b.relationships) THEN [ b EXCEPT !.k = @ + 1 ]
    ELSE NextChunk(b)

\* the concept loop without the test of the cluster's length
NextConcept_EveryCluster(b, cluster_idx) ==
    IF cluster_idx >= Len(b.clusters) THEN [ b EXCEPT !.pc = "done" ]
    ELSE [ b EXCEPT !.pc = "concept", !.cluster_idx = cluster_idx ]

\* the concept loop from cluster_idx on: the next cluster of more than one
\* entity, or the return of the statistics
RECURSIVE NextConcept(_, _)
NextConcept(b, cluster_idx) ==
    IF cluster_idx >= Len(b.clusters) THEN [ b EXCEPT !.pc = "done" ]
    ELSE IF Len(b.clusters[cluster_idx + 1]) > 1
    THEN [ b EXCEPT !.pc = "concept", !.cluster_idx = cluster_idx ]
    ELSE NextConcept(b, cluster_idx + 1)

\* stats['relationships_created'] += 1 once _create_relationship has returned,
\* whether or not the statement was applied
CountRelationship(b, applied) ==
    [ b EXCEPT !.stats.relationships_created = @ + 1,
               !.persisted = @ + (IF applied THEN 1 ELSE 0) ]

\* the pass of the chunk loop counting only the entities not extracted from an
\* earlier chunk
AfterChunkNode_NewOnlyCounted(b, entities, relationships) ==
    [ b EXCEPT !.stats.nodes_created = @ + 1,
               !.stats.entities_extracted =
                   @ + Cardinality({ k \in 1..Len(entities) :
                                       \A j \in 1..Len(b.all_entities) :
                                           b.all_entities[j].id # entities[k].id }),
               !.stats.relationships_extracted = @ + Len(relationships),
               !.entities = entities, !.relationships = relationships,
               !.all_entities = @ \o entities, !.k = 1 ]

\* the pass of the chunk loop without the count of the chunk node
AfterChunkNode_NotCounted(b, entities, relationships) ==
    [ b EXCEPT !.stats.entities_extracted = @ + Len(entities),
               !.stats.relationships_extracted = @ + Len(relationships),
               !.entities = entities, !.relationships = relationships,
               !.all_entities = @ \o entities, !.k = 1 ]

\* the chunk node is counted, the chunk's entities and relationships are
\* extracted and counted
AfterChunkNode(b, entities, relationships) ==
    [ b EXCEPT !.stats.nodes_created = @ + 1,
               !.stats.entities_extracted = @ + Len(entities),
               !.stats.relationships_extracted = @ + Len(relationships),
               !.entities = entities, !.relationships = relationships,
               !.all_entities = @ \o entities, !.k = 1 ]

----------------------------------------------------------------------------
(* Inputs of the extraction runs *)

\* "Alice works at Google."
AliceWorksAtGoogle ==
    << "A", "l", "i", "c", "e", " ", "w", "o", "r", "k", "s", " ", "a", "t",
       " ", "G", "o", "o", "g", "l", "e", "." >>

\* "John Smith works at Google with Sarah Johnson." (test_extract_relationships_cooccurrence)
JohnSmithText ==
    << "J", "o", "h", "n", " ", "S", "m", "i", "t", "h", " ", "w", "o", "r",
       "k", "s", " ", "a", "t", " ", "G", "o", "o", "g", "l", "e", " ", "w",
       "i", "t", "h", " ", "S", "a", "r", "a", "h", " ", "J", "o", "h", "n",
       "s", "o", "n", "." >>

\* "storage for rag and llm"
RagLlmText ==
    << "s", "t", "o", "r", "a", "g", "e", " ", "f", "o", "r", " ", "r", "a",
       "g", " ", "a", "n", "d", " ", "l", "l", "m" >>

\* "A"
TextA ==
    << "A" >>

\* "Apple Inc"
AppleInc ==
    << "A", "p", "p", "l", "e", " ", "I", "n", "c" >>

\* "Google Apple"
GoogleApple ==
    << "G", "o", "o", "g", "l", "e", " ", "A", "p", "p", "l", "e" >>

Scenarios ==
    { AliceWorksAtGoogle, JohnSmithText, RagLlmText, AppleInc, GoogleApple,
      TextA, << >> }

\* the words of the generated texts
Words ==
    { <<"G", "o", "o", "g", "l", "e">>,
      <<"A", "p", "p", "l", "e">>,
      <<"p", "i", "n", "e", "a", "p", "p", "l", "e">> }

\* what stands between two words of a generated text: a comma and a space, or
\* a long filler of GapLen characters
Separators ==
    { << ",", " " >>, SubSeq([ i \in 1..GapLen |-> "." ], 1, GapLen) }

RECURSIVE GenTexts(_)
GenTexts(n) ==
    IF n = 1 THEN Words
    ELSE { t \o s \o w : t \in GenTexts(n - 1), s \in Separators, w \in Words }

Texts ==
    Scenarios \cup UNION { GenTexts(n) : n \in 1..MaxWords }

\* the sequences over S of length up to n
RECURSIVE SeqsUpTo(_, _)
SeqsUpTo(S, n) ==
    IF n = 0 THEN { << >> }
    ELSE SeqsUpTo(S, n - 1)
         \cup { Append(q, e) : q \in { r \in SeqsUpTo(S, n - 1) : Len(r) = n - 1 },
                               e \in S }

Instances == { 1, 2 }

IdsOf(entities) ==
    { entities[k].id : k \in 1..Len(entities) }

----------------------------------------------------------------------------
(* Extraction runs: extract_entities, extract_relationships on its result,  *)
(* and extract_entities once more, on either extractor instance             *)

\* EntityExtractor.__init__ on every instance, and a text
ExtractStart(texts) ==
    /\ x_text \in texts
    /\ x_pc = "idle"
    /\ x_inst = << >>
    /\ x_entities = << >>
    /\ x_rels = << >>
    /\ x_ids1 = {}
    /\ entity_cache = [ i \in Instances |-> {} ]

\* ConceptClusterer.__init__
ClusterStart(providers) ==
    /\ c_provider \in providers
    /\ c_cache = << >>
    /\ c_entities = << >>
    /\ c_threshold = DefaultThreshold
    /\ c_result = [ raised |-> FALSE, clusters |-> << >> ]
    /\ c_pc = "idle"
    /\ c_merged = [ cluster_names |-> << >>, result |-> << >> ]
    /\ c_invoked = << >>

\* TemporalGraphBuilder.__init__
TemporalStart ==
    /\ temporal_index = << >>
    /\ t_keys = << >>
    /\ t_call = [ op |-> "init" ]

\* an empty database, and KnowledgeGraphBuilder.__init__ on every instance
GraphStart(models, clustering) ==
    /\ graph = EmptyGraph
    /\ kb \in [ Builders -> { NewBuilder(m, c) : m \in models, c \in clustering } ]
    /\ store_call = [ op |-> "none", raised |-> FALSE, verified |-> TRUE ]

\* an empty database, and no KnowledgeGraphBuilder and no Neo4jGraphStore
\* constructed yet
GraphNew(models, clustering) ==
    /\ graph = EmptyGraph
    /\ kb \in [ Builders -> { [ NewBuilder(m, c) EXCEPT !.pc = "new", !.verified = FALSE ] :
                                m \in models, c \in clustering } ]
    /\ store_call = [ op |-> "new", raised |-> FALSE, verified |-> FALSE ]

InitExtract ==
    /\ ExtractStart(Texts)
    /\ ClusterStart({NoModel})
    /\ TemporalStart
    /\ GraphStart({NoModel}, {TRUE})
    /\ now = 0
    /\ hashOrder \in { "listed", "reversed" }

\* extractor.extract_entities(text), first call
ExtractEntities(inst) ==
    /\ x_pc = "idle"
    /\ now < MaxClock
    /\ now' = now + 1
    /\ x_entities' = extract_entities(x_text)
    /\ x_ids1' = IdsOf(x_entities')
    /\ x_inst' = Append(x_inst, inst)
    /\ x_pc' = "entities"
    /\ UNCHANGED <<x_text, x_rels, entity_cache, hashOrder, clusterVars, temporalVars, graphVars>>

\* extractor.extract_relationships(text, entities) on the entities just returned
ExtractRelationships ==
    /\ x_pc = "entities"
    /\ x_rels' = extract_relationships(x_text, x_entities)
    /\ x_pc' = "rels"
    /\ UNCHANGED <<x_text, x_inst, x_entities, x_ids1, entity_cache, now, hashOrder,
                   clusterVars, temporalVars, graphVars>>

\* a later extract_entities(text) on the same text
ExtractEntitiesAgain(inst) ==
    /\ x_pc = "rels"
    /\ now < MaxClock
    /\ now' = now + 1
    /\ x_entities' = extract_entities(x_text)
    /\ x_inst' = Append(x_inst, inst)
    /\ x_pc' = "again"
    /\ UNCHANGED <<x_text, x_rels, x_ids1, entity_cache, hashOrder, clusterVars, temporalVars, graphVars>>

NextExtract ==
    \/ \E inst \in Instances : ExtractEntities(inst)
    \/ ExtractRelationships
    \/ \E inst \in Instances : ExtractEntitiesAgain(inst)

SpecExtract ==
    InitExtract /\ [][NextExtract]_vars

----------------------------------------------------------------------------
(* Relationship runs: one extract_relationships call on a text and a list of   *)
(* entities given by the caller                                                *)

\* "Tesla", a name that stands in none of the texts
Tesla ==
    << "T", "e", "s", "l", "a" >>

\* "Google" + filler + filler + "Apple": the first occurrences of the two words
\* are more than Window characters apart
FarText ==
    LET filler == SubSeq([ i \in 1..GapLen |-> "." ], 1, GapLen)
    IN  << "G", "o", "o", "g", "l", "e" >> \o filler \o filler
        \o << "A", "p", "p", "l", "e" >>

RelationTexts ==
    GenTexts(2) \cup { FarText, TextA, << >> }

\* the entities a caller passes: two whose names stand in the texts, also inside
\* another word, and one whose name is in no text
RelationEntities ==
    { Entity(EntityId(name, "ORGANIZATION"), name, "ORGANIZATION", PatternConfidence) :
        name \in { << "G", "o", "o", "g", "l", "e" >>, << "A", "p", "p", "l", "e" >>,
                   Tesla } }

InitRelations ==
    /\ ExtractStart(RelationTexts)
    /\ ClusterStart({NoModel})
    /\ TemporalStart
    /\ GraphStart({NoModel}, {TRUE})
    /\ now = 0
    /\ hashOrder \in { "listed", "reversed" }

\* extractor.extract_relationships(text, entities)
ExtractRelationshipsOf(entities) ==
    /\ x_pc = "idle"
    /\ x_entities' = entities
    /\ x_rels' = extract_relationships(x_text, entities)
    /\ x_pc' = "given"
    /\ UNCHANGED <<x_text, x_inst, x_ids1, entity_cache, now, hashOrder,
                   clusterVars, temporalVars, graphVars>>

NextRelations ==
    \E entities \in SeqsUpTo(RelationEntities, MaxEntities) :
        ExtractRelationshipsOf(entities)

SpecRelations ==
    InitRelations /\ [][NextRelations]_vars

----------------------------------------------------------------------------
(* Clustering runs: one cluster_entities call on a new ConceptClusterer *)

\* the entities given to the clusterer
ClusterEntities ==
    { [ id |-> "e1", name |-> "n1" ],
      [ id |-> "e2", name |-> "n2" ],
      [ id |-> "e3", name |-> "n3" ] }

ClusterNames ==
    { e.name : e \in ClusterEntities }

\* leading components of the embeddings the providers return
Components ==
    { << 0, 0 >>, << 1, 0 >>, << 0, 1 >>, << 1, 1 >> }

\* an embedding model: the dimension of its vectors, and for each name the
\* vector embed_query returns, or that it raises; or no model
Providers ==
    {NoModel} \cup [ kind : {"model"}, dim : {FallbackDim, 2},
                     embed_query : [ClusterNames -> Components \cup {Raise}] ]

Thresholds ==
    { << 0, 1 >>, DefaultThreshold, << 1, 1 >>, << 3, 2 >> }

InitCluster ==
    /\ ClusterStart(Providers)
    /\ ExtractStart({ << >> })
    /\ TemporalStart
    /\ GraphStart({NoModel}, {TRUE})
    /\ now = 0
    /\ hashOrder = "listed"

\* clusterer.cluster_entities(entities, similarity_threshold)
ClusterEntitiesCall(entities, threshold) ==
    /\ c_pc = "idle"
    /\ LET r == cluster_entities(entities, threshold, c_provider, c_cache)
       IN  /\ c_result' = [ raised |-> r.raised, clusters |-> r.clusters ]
           /\ c_cache' = r.cache
           /\ c_invoked' = c_invoked \o r.invoked
    /\ c_entities' = entities
    /\ c_threshold' = threshold
    /\ c_pc' = "done"
    /\ UNCHANGED <<c_provider, c_merged, extractVars, temporalVars, graphVars, now,
                   hashOrder>>

NextCluster ==
    \E entities \in SeqsUpTo(ClusterEntities, MaxEntities), threshold \in Thresholds :
        ClusterEntitiesCall(entities, threshold)

SpecCluster ==
    InitCluster /\ [][NextCluster]_vars

----------------------------------------------------------------------------
(* Cached runs: cluster_entities calls, one after another, on one             *)
(* ConceptClusterer                                                           *)

\* the entities of the calls: two of them have one id and different names
CachedEntities ==
    { [ id |-> "e1", name |-> "n1" ],
      [ id |-> "e1", name |-> "n2" ],
      [ id |-> "e2", name |-> "n2" ] }

\* the lists given to a call
CachedLists ==
    SeqsUpTo(CachedEntities, 2)

\* embedding models of two dimensions that return one of two vectors for each
\* name, or raise; or no model
CachedProviders ==
    {NoModel} \cup [ kind : {"model"}, dim : {FallbackDim, 2},
                     embed_query : [ClusterNames -> { << 1, 0 >>, << 0, 1 >>, Raise }] ]

InitCached ==
    /\ ClusterStart(CachedProviders)
    /\ ExtractStart({ << >> })
    /\ TemporalStart
    /\ GraphStart({NoModel}, {TRUE})
    /\ now = 0
    /\ hashOrder = "listed"

\* a later clusterer.cluster_entities(entities) on the same clusterer
ClusterEntitiesAgain(entities, threshold) ==
    /\ c_pc \in { "done", "again" }
    /\ LET r == cluster_entities(entities, threshold, c_provider, c_cache)
       IN  /\ c_result' = [ raised |-> r.raised, clusters |-> r.clusters ]
           /\ c_cache' = r.cache
           /\ c_invoked' = c_invoked \o r.invoked
    /\ c_entities' = entities
    /\ c_threshold' = threshold
    /\ c_pc' = "again"
    /\ UNCHANGED <<c_provider, c_merged, extractVars, temporalVars, graphVars, now,
                   hashOrder>>

NextCached ==
    \E entities \in CachedLists :
        \/ ClusterEntitiesCall(entities, DefaultThreshold)
        \/ ClusterEntitiesAgain(entities, DefaultThreshold)

SpecCached ==
    InitCached /\ [][NextCached]_vars

----------------------------------------------------------------------------
(* Merge runs: cluster_entities, then merge_clusters on the clusters returned *)

\* the names callers give to clusters: "AI", and "Concept_1"
MergeNames ==
    { << "A", "I" >>, << "C", "o", "n", "c", "e", "p", "t", "_", "1" >> }

\* the cluster_names arguments: any of the names for any of the indices
ClusterNameMaps ==
    UNION { [ D -> MergeNames ] : D \in SUBSET (0..(MaxEntities - 1)) }

\* no embedding model, or one that returns the same vector for every name
MergeProviders ==
    { NoModel,
      [ kind |-> "model", dim |-> 2, embed_query |-> [ n \in ClusterNames |-> << 1, 0 >> ] ],
      [ kind |-> "model", dim |-> 2,
        embed_query |-> [ n \in ClusterNames |-> IF n = "n1" THEN << 0, 1 >> ELSE << 1, 0 >> ] ] }

InitMerge ==
    /\ ClusterStart(MergeProviders)
    /\ ExtractStart({ << >> })
    /\ TemporalStart
    /\ GraphStart({NoModel}, {TRUE})
    /\ now = 0
    /\ hashOrder = "listed"

\* clusterer.merge_clusters(clusters, cluster_names) on the clusters returned
MergeClustersCall(cluster_names) ==
    /\ c_pc = "done"
    /\ ~c_result.raised
    /\ c_merged' = [ cluster_names |-> cluster_names,
                     result |-> merge_clusters(c_result.clusters, cluster_names) ]
    /\ c_pc' = "merged"
    /\ UNCHANGED <<c_provider, c_cache, c_entities, c_threshold, c_result, c_invoked,
                   extractVars, temporalVars, graphVars, now, hashOrder>>

NextMerge ==
    \/ \E entities \in SeqsUpTo(ClusterEntities, MaxEntities) :
           ClusterEntitiesCall(entities, DefaultThreshold)
    \/ \E cluster_names \in ClusterNameMaps : MergeClustersCall(cluster_names)

SpecMerge ==
    InitMerge /\ [][NextMerge]_vars

----------------------------------------------------------------------------
(* Temporal runs: calls on one TemporalGraphBuilder *)

\* the entities recorded; e1 is recorded under two types
TemporalEntities ==
    { [ id |-> "e1", name |-> << "n", "1" >>, entity_type |-> "PERSON" ],
      [ id |-> "e1", name |-> << "m", "1" >>, entity_type |-> "ORGANIZATION" ],
      [ id |-> "e2", name |-> << "n", "2" >>, entity_type |-> "PERSON" ] }

\* the timestamps callers pass
GivenTimestamps ==
    { << "1", "0" >>, << "2" >> }

RecordCount ==
    IF t_keys = << >> THEN 0
    ELSE LET RECURSIVE Sum(_)
             Sum(k) == IF k = 0 THEN 0 ELSE Len(temporal_index[t_keys[k]]) + Sum(k - 1)
         IN  Sum(Len(t_keys))

InitTemporal ==
    /\ TemporalStart
    /\ ExtractStart({ << >> })
    /\ ClusterStart({NoModel})
    /\ GraphStart({NoModel}, {TRUE})
    /\ now = time_window
    /\ hashOrder = "listed"

\* builder.add_temporal_entity(entity, timestamp); a day passes after it
AddTemporalEntity(entity, timestamp) ==
    /\ RecordCount < MaxRecords
    /\ now' = now + 1
    /\ temporal_index' = IndexAppend(temporal_index, entity, AddTimestamp(timestamp))
    /\ t_keys' = IF entity.id \in DOMAIN temporal_index THEN t_keys
                 ELSE Append(t_keys, entity.id)
    /\ t_call' = [ op |-> "add" ]
    /\ UNCHANGED <<hashOrder, extractVars, clusterVars, graphVars>>

\* builder.query_temporal_entities(entity_type, start_time, end_time)
QueryTemporalEntities(entity_type, start_time, end_time) ==
    /\ t_call' = [ op |-> "query", entity_type |-> entity_type,
                   start_time |-> IF start_time = Omitted
                                  THEN IsoFormat(now - time_window) ELSE start_time,
                   end_time |-> IF end_time = Omitted THEN IsoFormat(now) ELSE end_time,
                   result |-> query_temporal_entities(entity_type, start_time, end_time) ]
    /\ UNCHANGED <<temporal_index, t_keys, now, hashOrder, extractVars, clusterVars, graphVars>>

\* builder.get_entity_timeline(entity_id)
GetEntityTimeline(entity_id) ==
    /\ t_call' = [ op |-> "timeline", entity_id |-> entity_id,
                   result |-> get_entity_timeline(entity_id) ]
    /\ temporal_index' = TimelineIndex(temporal_index, entity_id)
    /\ t_keys' = IF entity_id \in DOMAIN temporal_index' \ DOMAIN temporal_index
                 THEN Append(t_keys, entity_id) ELSE t_keys
    /\ UNCHANGED <<now, hashOrder, extractVars, clusterVars, graphVars>>

NextTemporal ==
    \/ \E entity \in TemporalEntities, timestamp \in GivenTimestamps \cup {Omitted} :
           AddTemporalEntity(entity, timestamp)
    \/ \E entity_type \in { "PERSON", "ORGANIZATION" },
          start_time \in GivenTimestamps \cup {Omitted},
          end_time \in GivenTimestamps \cup {Omitted} :
           QueryTemporalEntities(entity_type, start_time, end_time)
    \/ \E entity_id \in { "e1", "e2", "e3" } : GetEntityTimeline(entity_id)

SpecTemporal ==
    InitTemporal /\ [][NextTemporal]_vars

----------------------------------------------------------------------------
(* Pipeline runs: build_graph_from_chunks on each builder, one step per        *)
(* statement sent to the database, and Neo4jGraphStore calls after the runs    *)

\* "Apple, Google"
AppleGoogle ==
    << "A", "p", "p", "l", "e", ",", " ", "G", "o", "o", "g", "l", "e" >>

\* chunk.get('text', '') of the chunks given to the builder
ChunkTexts ==
    { TextA, AppleGoogle, RagLlmText }

DocumentIds ==
    { << "doc1" >> }

DocumentNames ==
    { << "report" >> }

\* the names of the entities the chunk texts hold
ChunkNames ==
    { << "A", "p", "p", "l", "e" >>, << "G", "o", "o", "g", "l", "e" >>,
      << "r", "a", "g" >>, << "l", "l", "m" >> }

\* an embedding model: one vector for the two organizations, another for
\* "rag", and embed_query raises for "llm"
NameVectors ==
    [ kind |-> "model", dim |-> FallbackDim,
      embed_query |-> [ n \in ChunkNames |->
                          IF n = << "r", "a", "g" >> THEN << 0, 1 >>
                          ELSE IF n = << "l", "l", "m" >> THEN Raise
                          ELSE << 1, 0 >> ] ]

BuilderModels ==
    { NoModel, NameVectors }

\* an id no node has
MissingId ==
    << "missing" >>

\* the ids given to Neo4jGraphStore.create_relationship
StoreIds ==
    { EntityId(<< "G", "o", "o", "g", "l", "e" >>, "ORGANIZATION"), MissingId }

StoreRelationshipTypes ==
    { "RELATED_TO" }

Init ==
    /\ GraphNew(BuilderModels, BOOLEAN)
    /\ ExtractStart({ << >> })
    /\ ClusterStart({NoModel})
    /\ TemporalStart
    /\ now = 0
    /\ hashOrder = "listed"

\* KnowledgeGraphBuilder(neo4j_uri, neo4j_user, neo4j_password, ...): the driver
\* is made, then _verify_connection sends RETURN 1
BuilderInit(builder, outcome) ==
    /\ kb[builder].pc = "new"
    /\ kb' = [ kb EXCEPT ![builder] = AfterVerifyConnection(kb[builder], outcome) ]
    /\ UNCHANGED <<graph, store_call, now, hashOrder, extractVars, clusterVars,
                   temporalVars>>

\* the start of build_graph_from_chunks(chunks, document_id, document_name):
\* the statistics start at zero and the document node is written
StartCall(builder, chunks, document_id, document_name, outcome) ==
    LET b == [ kb[builder] EXCEPT !.chunks = chunks, !.document_id = document_id,
                                  !.document_name = document_name,
                                  !.stats = ZeroStats, !.all_entities = << >>,
                                  !.persisted = 0, !.skipped = 0, !.calls = @ + 1,
                                  !.returned = [ graph |-> graph,
                                                 skipped |-> kb[builder].skipped ] ]
    IN  /\ now < MaxClock
        /\ now' = now + 1
        /\ IF outcome = "ok"
           THEN /\ graph' = DocumentStatement(graph, document_id, document_name)
                /\ kb' = [ kb EXCEPT ![builder] =
                             LET counted == [ b EXCEPT !.stats.nodes_created = @ + 1 ]
                             IN  IF chunks = << >>
                                 THEN [ counted EXCEPT !.pc = "cluster" ]
                                 ELSE [ counted EXCEPT !.pc = "chunk", !.i = 0 ] ]
           ELSE /\ graph' = graph
                /\ kb' = [ kb EXCEPT ![builder] = Raised(b, "document", outcome) ]
        /\ UNCHANGED <<store_call, hashOrder, extractVars, clusterVars, temporalVars>>

\* builder.build_graph_from_chunks(chunks, document_id, document_name), the
\* first call on the builder
CreateDocumentNode(builder, chunks, document_id, document_name, outcome) ==
    /\ kb[builder].pc = "idle"
    /\ StartCall(builder, chunks, document_id, document_name, outcome)

\* the same call once more, after the first has returned
BuildAgain(builder, outcome) ==
    /\ kb[builder].pc = "done"
    /\ kb[builder].calls = 1
    /\ StartCall(builder, kb[builder].chunks, kb[builder].document_id,
                 kb[builder].document_name, outcome)

\* the chunk node of chunk i is written; then extract_entities and
\* extract_relationships on its text.  Time passes between the extractions of
\* two chunks.
CreateChunkNode(builder, outcome) ==
    LET b == kb[builder]
        text == b.chunks[b.i + 1]
        entities == extract_entities(text)
        relationships == extract_relationships(text, entities)
        extracted == AfterChunkNode(b, entities, relationships)
    IN  /\ b.pc = "chunk"
        /\ IF outcome = "ok"
           THEN /\ graph' = ChunkStatement(graph, ChunkId(b.document_id, b.i), text,
                                           b.document_id)
                /\ kb' = [ kb EXCEPT ![builder] =
                             IF entities = << >> THEN NextChunk(extracted)
                             ELSE [ extracted EXCEPT !.pc = "entity" ] ]
           ELSE /\ graph' = graph
                /\ kb' = [ kb EXCEPT ![builder] = Raised(b, "chunk", outcome) ]
        /\ now' = now + 1
        /\ UNCHANGED <<store_call, hashOrder, extractVars, clusterVars, temporalVars>>

\* _create_entity_node(entity) for entity k of the chunk
CreateEntityNode(builder, outcome) ==
    LET b == kb[builder]
    IN  /\ b.pc = "entity"
        /\ IF outcome = "ok"
           THEN /\ graph' = EntityStatement(graph, b.entities[b.k])
                /\ kb' = [ kb EXCEPT ![builder].pc = "mentions" ]
           ELSE /\ graph' = graph
                /\ kb' = [ kb EXCEPT ![builder] = Raised(b, "entity", outcome) ]
        /\ UNCHANGED <<store_call, now, hashOrder, extractVars, clusterVars, temporalVars>>

\* _create_chunk_entity_relationship(chunk_id, entity.id): except Neo4jError
CreateChunkEntityRelationship(builder, outcome) ==
    LET b == kb[builder]
    IN  /\ b.pc = "mentions"
        /\ graph' = IF outcome = "ok"
                    THEN MentionsStatement(graph, ChunkId(b.document_id, b.i),
                                           b.entities[b.k].id)
                    ELSE graph
        /\ kb' = [ kb EXCEPT ![builder] =
                     IF outcome = "ok" THEN NextEntity(b)
                     ELSE IF outcome = "Neo4jError"
                     THEN NextEntity([ b EXCEPT !.skipped = @ + 1 ])
                     ELSE Raised(b, "mentions", outcome) ]
        /\ UNCHANGED <<store_call, now, hashOrder, extractVars, clusterVars, temporalVars>>

\* _create_relationship(relationship) for relationship k of the chunk (except
\* Neo4jError), and the count that follows it
CreateRelationship(builder, outcome) ==
    LET b == kb[builder]
        rel == b.relationships[b.k]
    IN  /\ b.pc = "relationship"
        /\ graph' = IF outcome = "ok" THEN RelationshipStatement(graph, rel) ELSE graph
        /\ kb' = [ kb EXCEPT ![builder] =
                     IF outcome \in { "ok", "Neo4jError" }
                     THEN NextRelationship(
                              CountRelationship(b, outcome = "ok"
                                                   /\ RelationshipRows(graph, rel) # << >>))
                     ELSE Raised(b, "relationship", outcome) ]
        /\ UNCHANGED <<store_call, now, hashOrder, extractVars, clusterVars, temporalVars>>

\* after the chunk loop: cluster_entities(all_entities) if clustering is
\* enabled and there are entities
ClusterAllEntities(builder) ==
    LET b == kb[builder]
        r == cluster_entities(b.all_entities, DefaultThreshold, b.embedding_model,
                              b.embeddings_cache)
        clusters == SubSeq([ c \in 1..Len(r.clusters) |->
                               SubSeq(r.clusters[c], 1, Len(r.clusters[c])) ],
                           1, Len(r.clusters))
    IN  /\ b.pc = "cluster"
        /\ kb' = [ kb EXCEPT ![builder] =
                     IF b.enable_clustering /\ b.all_entities # << >>
                     THEN IF r.raised
                          THEN Raised([ b EXCEPT !.embeddings_cache = r.cache ],
                                      "cluster", "ValueError")
                          ELSE NextConcept([ b EXCEPT !.clusters = clusters,
                                                      !.stats.clusters_created = Len(clusters),
                                                      !.embeddings_cache = r.cache ], 0)
                     ELSE [ b EXCEPT !.pc = "done" ] ]
        /\ UNCHANGED <<graph, store_call, now, hashOrder, extractVars, clusterVars,
                       temporalVars>>

\* _create_concept_from_cluster(cluster, document_id, cluster_idx)
CreateConceptFromCluster(builder, outcome) ==
    LET b == kb[builder]
    IN  /\ b.pc = "concept"
        /\ IF outcome = "ok"
           THEN /\ graph' = ConceptStatement(graph, b.clusters[b.cluster_idx + 1],
                                             b.document_id, b.cluster_idx)
                /\ kb' = [ kb EXCEPT ![builder] = NextConcept(b, b.cluster_idx + 1) ]
           ELSE /\ graph' = graph
                /\ kb' = [ kb EXCEPT ![builder] = Raised(b, "concept", outcome) ]
        /\ UNCHANGED <<store_call, now, hashOrder, extractVars, clusterVars, temporalVars>>

\* no builder is in a call or about to make one
BuildsOver ==
    \A builder \in Builders : kb[builder].pc \in { "done", "raised", "no_object" }

\* Neo4jGraphStore(uri, username, password): the driver is made, then
\* _verify_connection sends RETURN 1 and raises again what it raises
StoreInit(outcome) ==
    /\ BuildsOver
    /\ store_call.op = "new"
    /\ store_call' = [ op |-> "__init__", raised |-> outcome # "ok",
                       verified |-> outcome = "ok", error |-> outcome ]
    /\ UNCHANGED <<graph, kb, now, hashOrder, extractVars, clusterVars, temporalVars>>

\* Neo4jGraphStore.create_relationship(source_id, target_id, relationship_type)
\* on the database the builds have left: no except clause around session.run
StoreCreateRelationship(source_id, target_id, relationship_type, outcome) ==
    /\ BuildsOver
    /\ store_call.op = "__init__"
    /\ ~store_call.raised
    /\ graph' = IF outcome = "ok"
                THEN CreateRows(graph, relationship_type,
                                RowsOf(MatchAnyLabel(graph, source_id),
                                       MatchAnyLabel(graph, target_id)),
                                [ created_at |-> now, properties |-> "{}" ])
                ELSE graph
    /\ store_call' = [ op |-> "create_relationship", raised |-> outcome # "ok",
                       verified |-> store_call.verified ]
    /\ UNCHANGED <<kb, now, hashOrder, extractVars, clusterVars, temporalVars>>

\* builder.get_entity_context(entity_id) after the build: no except clause
\* around session.run
GetEntityContext(builder, entity_id, outcome) ==
    /\ kb[builder].pc \in { "done", "raised" }
    /\ store_call.op = "new"
    /\ store_call' = [ op |-> "get_entity_context", raised |-> outcome # "ok",
                       verified |-> store_call.verified,
                       entity_id |-> entity_id,
                       result |-> IF outcome = "ok"
                                  THEN get_entity_context(graph, entity_id, DefaultDepth)
                                  ELSE EmptyContext ]
    /\ UNCHANGED <<graph, kb, now, hashOrder, extractVars, clusterVars, temporalVars>>

Next ==
    \/ \E builder \in Builders, outcome \in Outcomes : BuilderInit(builder, outcome)
    \/ \E outcome \in Outcomes : StoreInit(outcome)
    \/ \E builder \in Builders, chunks \in SeqsUpTo(ChunkTexts, MaxChunks),
          document_id \in DocumentIds, document_name \in DocumentNames,
          outcome \in Outcomes :
           CreateDocumentNode(builder, chunks, document_id, document_name, outcome)
    \/ \E builder \in Builders, outcome \in Outcomes : CreateChunkNode(builder, outcome)
    \/ \E builder \in Builders, outcome \in Outcomes : CreateEntityNode(builder, outcome)
    \/ \E builder \in Builders, outcome \in Outcomes :
           CreateChunkEntityRelationship(builder, outcome)
    \/ \E builder \in Builders, outcome \in Outcomes : CreateRelationship(builder, outcome)
    \/ \E builder \in Builders : ClusterAllEntities(builder)
    \/ \E builder \in Builders, outcome \in Outcomes :
           CreateConceptFromCluster(builder, outcome)
    \/ \E source_id \in StoreIds, target_id \in StoreIds,
          relationship_type \in StoreRelationshipTypes, outcome \in Outcomes :
           StoreCreateRelationship(source_id, target_id, relationship_type, outcome)
    \/ \E builder \in Builders, entity_id \in StoreIds, outcome \in Outcomes :
           GetEntityContext(builder, entity_id, outcome)

Spec ==
    Init /\ [][Next]_vars

----------------------------------------------------------------------------
(* Re-runs: build_graph_from_chunks, and the same call again on the database *)
(* the first has left                                                       *)

\* the chunk lists of the re-runs: no chunk, a chunk without entities, a chunk
\* with two entities, and two chunks with the same two entities
RerunChunks ==
    { << >>, << TextA >>, << AppleGoogle >>, << AppleGoogle, AppleGoogle >>,
      << AppleGoogle, RagLlmText >>, << RagLlmText, RagLlmText >> }

InitRerun ==
    /\ GraphStart({NameVectors}, BOOLEAN)
    /\ ExtractStart({ << >> })
    /\ ClusterStart({NoModel})
    /\ TemporalStart
    /\ now = 0
    /\ hashOrder = "listed"

NextRerun ==
    \/ \E builder \in Builders, chunks \in RerunChunks,
          document_id \in DocumentIds, document_name \in DocumentNames,
          outcome \in Outcomes :
           CreateDocumentNode(builder, chunks, document_id, document_name, outcome)
    \/ \E builder \in Builders, outcome \in Outcomes : BuildAgain(builder, outcome)
    \/ \E builder \in Builders, outcome \in Outcomes : CreateChunkNode(builder, outcome)
    \/ \E builder \in Builders, outcome \in Outcomes : CreateEntityNode(builder, outcome)
    \/ \E builder \in Builders, outcome \in Outcomes :
           CreateChunkEntityRelationship(builder, outcome)
    \/ \E builder \in Builders, outcome \in Outcomes : CreateRelationship(builder, outcome)
    \/ \E builder \in Builders : ClusterAllEntities(builder)
    \/ \E builder \in Builders, outcome \in Outcomes :
           CreateConceptFromCluster(builder, outcome)

SpecRerun ==
    InitRerun /\ [][NextRerun]_vars

----------------------------------------------------------------------------
(* Concurrent runs: two builders, each in one build_graph_from_chunks call on  *)
(* a document of its own, their statements interleaved on one database         *)

ConcurrentChunks ==
    { << TextA >>, << AppleGoogle >> }

\* the document each builder ingests
ConcurrentDocument ==
    [ kb1 |-> << "doc1" >>, kb2 |-> << "doc2" >> ]

InitConcurrent ==
    /\ graph = EmptyGraph
    /\ kb \in [ TwoBuilders -> { NewBuilder(NoModel, FALSE) } ]
    /\ store_call = [ op |-> "none", raised |-> FALSE, verified |-> TRUE ]
    /\ ExtractStart({ << >> })
    /\ ClusterStart({NoModel})
    /\ TemporalStart
    /\ now = 0
    /\ hashOrder = "listed"

\* _create_entity_node on two builders at once, for an id that has no node yet:
\* the database holds no uniqueness constraint on Entity.id, so the MERGE of
\* neither transaction sees or waits for the node of the other and both create one
CreateEntityNodeOverlapping(first, second) ==
    LET e1 == kb[first].entities[kb[first].k]
        e2 == kb[second].entities[kb[second].k]
        created1 == EntityStatement(graph, e1).nodes
        created2 == EntityStatement(graph, e2).nodes
    IN  /\ first # second
        /\ kb[first].pc = "entity"
        /\ kb[second].pc = "entity"
        /\ e1.id = e2.id
        /\ MatchNodes(graph, "Entity", e1.id) = {}
        /\ graph' = [ graph EXCEPT !.nodes = Append(created1, created2[Len(created2)]) ]
        /\ kb' = [ kb EXCEPT ![first].pc = "mentions", ![second].pc = "mentions" ]
        /\ UNCHANGED <<store_call, now, hashOrder, extractVars, clusterVars, temporalVars>>

NextConcurrent ==
    \/ \E builder \in TwoBuilders, chunks \in ConcurrentChunks,
          document_name \in DocumentNames, outcome \in Outcomes :
           CreateDocumentNode(builder, chunks, ConcurrentDocument[builder],
                              document_name, outcome)
    \/ \E builder \in TwoBuilders, outcome \in Outcomes : CreateChunkNode(builder, outcome)
    \/ \E builder \in TwoBuilders, outcome \in Outcomes : CreateEntityNode(builder, outcome)
    \/ \E first \in TwoBuilders, second \in TwoBuilders :
           CreateEntityNodeOverlapping(first, second)
    \/ \E builder \in TwoBuilders, outcome \in Outcomes :
           CreateChunkEntityRelationship(builder, outcome)
    \/ \E builder \in TwoBuilders, outcome \in Outcomes : CreateRelationship(builder, outcome)
    \/ \E builder \in TwoBuilders : ClusterAllEntities(builder)

SpecConcurrent ==
    InitConcurrent /\ [][NextConcurrent]_vars

----------------------------------------------------------------------------
(* Store runs: create_document_node and create_entity_node calls on one      *)
(* Neo4jGraphStore                                                           *)

\* the arguments of create_document_node: one id under two paths, and another
StoreDocuments ==
    { [ doc_id |-> << "doc1" >>, file_path |-> << "a", ".", "p", "d", "f" >>, doc_type |-> "pdf" ],
      [ doc_id |-> << "doc1" >>, file_path |-> << "b", ".", "p", "d", "f" >>, doc_type |-> "pdf" ],
      [ doc_id |-> << "doc2" >>, file_path |-> << "a", ".", "p", "d", "f" >>, doc_type |-> "pdf" ] }

\* the arguments of create_entity_node: one id under two names and two types,
\* and another
StoreEntities ==
    { [ entity_id |-> << "e1" >>, name |-> << "A", "l", "i", "c", "e" >>, entity_type |-> "Person" ],
      [ entity_id |-> << "e1" >>, name |-> << "A", "l" >>, entity_type |-> "Person" ],
      [ entity_id |-> << "e1" >>, name |-> << "A", "l", "i", "c", "e" >>, entity_type |-> "Organization" ],
      [ entity_id |-> << "e2" >>, name |-> << "B", "o", "b" >>, entity_type |-> "Person" ] }

InitStore ==
    /\ GraphStart({NoModel}, {TRUE})
    /\ ExtractStart({ << >> })
    /\ ClusterStart({NoModel})
    /\ TemporalStart
    /\ now = 0
    /\ hashOrder = "listed"

\* store.create_document_node(doc_id, file_path, doc_type): no except clause
StoreCreateDocumentNode(doc_id, file_path, doc_type, outcome) ==
    /\ store_call.verified
    /\ Len(graph.nodes) < MaxNodes
    /\ graph' = IF outcome = "ok"
                THEN CreateNode(graph, "Document", doc_id,
                                [ path |-> file_path, type |-> doc_type,
                                  created_at |-> now, metadata |-> "{}" ])
                ELSE graph
    /\ store_call' = [ op |-> "create_document_node", raised |-> outcome # "ok",
                       verified |-> TRUE, id |-> doc_id, type |-> "Document" ]
    /\ UNCHANGED <<kb, now, hashOrder, extractVars, clusterVars, temporalVars>>

\* store.create_entity_node(entity_id, name, entity_type): no except clause
StoreCreateEntityNode(entity_id, name, entity_type, outcome) ==
    /\ store_call.verified
    /\ Len(graph.nodes) < MaxNodes
    /\ graph' = IF outcome = "ok"
                THEN CreateNode(graph, entity_type, entity_id,
                                [ name |-> name, created_at |-> now, properties |-> "{}" ])
                ELSE graph
    /\ store_call' = [ op |-> "create_entity_node", raised |-> outcome # "ok",
                       verified |-> TRUE, id |-> entity_id, type |-> entity_type ]
    /\ UNCHANGED <<kb, now, hashOrder, extractVars, clusterVars, temporalVars>>

\* the chunk ids, texts, document ids and entity lists given to
\* extract_entities_from_chunk: doc2 may not have been created
StoreChunkIds ==
    { << "c1" >> }

StoreDocIds ==
    { << "doc1" >>, << "doc2" >> }

StoreEntityLists ==
    { << >>, << [ name |-> << "A", "l", "i", "c", "e" >>, entity_type |-> "Person" ] >> }

\* store.extract_entities_from_chunk(chunk_id, text, doc_id, entities): the two
\* statements that create the chunk and its edge have no except clause; the
\* statements of an entity have
StoreExtractEntitiesFromChunk(chunk_id, text, doc_id, entities, outcome, edge_outcome, entity_outcomes) ==
    LET chunk == StoreChunkStatement(graph, chunk_id, text)
        linked == StoreFromDocumentStatement(chunk, chunk_id, doc_id)
    IN  /\ store_call.verified
        /\ Len(graph.nodes) < MaxNodes
        /\ graph' = IF outcome # "ok" THEN graph
                    ELSE IF edge_outcome # "ok" THEN chunk
                    ELSE StoreEntityLoop(linked, chunk_id, entities, 1, entity_outcomes)
        /\ store_call' = [ op |-> "extract_entities_from_chunk",
                           raised |-> outcome # "ok" \/ edge_outcome # "ok",
                           verified |-> TRUE, id |-> chunk_id, type |-> "Chunk",
                           doc_id |-> doc_id ]
        /\ UNCHANGED <<kb, now, hashOrder, extractVars, clusterVars, temporalVars>>

NextStore ==
    \/ \E d \in StoreDocuments, outcome \in Outcomes :
           StoreCreateDocumentNode(d.doc_id, d.file_path, d.doc_type, outcome)
    \/ \E e \in StoreEntities, outcome \in Outcomes :
           StoreCreateEntityNode(e.entity_id, e.name, e.entity_type, outcome)
    \/ \E chunk_id \in StoreChunkIds, doc_id \in StoreDocIds,
          entities \in StoreEntityLists, outcome \in Outcomes, edge_outcome \in Outcomes,
          entity_outcomes \in Outcomes \X Outcomes :
           StoreExtractEntitiesFromChunk(chunk_id, TextA, doc_id, entities, outcome,
                                         edge_outcome, entity_outcomes)

SpecStore ==
    InitStore /\ [][NextStore]_vars

----------------------------------------------------------------------------
(* Claims about EntityExtractor *)

\* the keyword stands in the text at position i as a whole word, as written
KeywordAt(t, i, keyword) ==
    MatchKeywords(t, i, << keyword >>) > 0

\* two different organization keywords stand in the text with their starts at
\* most 100 characters apart
TwoOrgKeywordsNear(t) ==
    \E k1, k2 \in 1..Len(OrgKeywords) :
        /\ k1 # k2
        /\ \E i, j \in Boundaries(t) :
               /\ KeywordAt(t, i, OrgKeywords[k1])
               /\ KeywordAt(t, j, OrgKeywords[k2])
               /\ Abs(i - j) <= 100

\* as TwoOrgKeywordsNear, and the first occurrences of the two keywords in the
\* text, letter case ignored and inside other words included, are at most 100
\* characters apart
TwoOrgKeywordsFirstNear(t) ==
    \E k1, k2 \in 1..Len(OrgKeywords) :
        /\ k1 # k2
        /\ \E i, j \in Boundaries(t) :
               /\ KeywordAt(t, i, OrgKeywords[k1])
               /\ KeywordAt(t, j, OrgKeywords[k2])
        /\ Abs(Find(Lower(t), Lower(OrgKeywords[k1]))
               - Find(Lower(t), Lower(OrgKeywords[k2]))) <= 100

SomeCoOccursAboveFloor ==
    \E k \in 1..Len(x_rels) :
        /\ x_rels[k].relation_type = "CO_OCCURS"
        /\ x_rels[k].weight > WeightFloor

\* C4, as claimed: whenever two known organization keywords stand within 100
\* characters of each other, extract_relationships on the extracted entities
\* returns a CO_OCCURS relationship with weight > 0.3, whatever else the text holds
C4_AsClaimed ==
    (x_pc = "rels" /\ TwoOrgKeywordsNear(x_text)) => SomeCoOccursAboveFloor

\* C4, amended: whenever the first case-insensitive occurrences (inside other
\* words included) of two known organization keywords that stand in the text
\* are within 100 characters of each other, extract_relationships on the
\* extracted entities returns a CO_OCCURS relationship with weight > 0.3
C4_FirstOccurrencesNear ==
    (x_pc = "rels" /\ TwoOrgKeywordsFirstNear(x_text)) => SomeCoOccursAboveFloor

\* relationships were extracted from a text with two organization keywords
\* whose first occurrences are near, behind an earlier lower-case occurrence
C4_Witness ==
    /\ x_pc = "rels"
    /\ TwoOrgKeywordsFirstNear(x_text)
    /\ Len(x_text) > GapLen
    /\ SomeCoOccursAboveFloor

\* C5: a second extract_entities call on the same text, on the same or on
\* another extractor instance and at a later time, returns the same set of ids
C5_SameIds ==
    x_pc = "again" => IdsOf(x_entities) = x_ids1

\* the second call ran on the other instance and returned some entity
C5_Witness ==
    /\ x_pc = "again"
    /\ x_inst[1] # x_inst[2]
    /\ x_ids1 # {}

\* C10, as claimed: from "Alice works at Google." extract_entities returns a
\* PERSON entity whose name contains "Alice" and an ORGANIZATION entity "Google"
C10_AsClaimed ==
    (x_pc = "entities" /\ x_text = AliceWorksAtGoogle) =>
        /\ \E k \in 1..Len(x_entities) :
               /\ x_entities[k].entity_type = "PERSON"
               /\ Find(x_entities[k].name, << "A", "l", "i", "c", "e" >>) # -1
        /\ \E k \in 1..Len(x_entities) :
               /\ x_entities[k].entity_type = "ORGANIZATION"
               /\ x_entities[k].name = << "G", "o", "o", "g", "l", "e" >>

\* the matches of the patterns in x_text, in the order of ENTITY_PATTERNS
PatternMatches ==
    MatchesFrom(x_text, Boundaries(x_text), 1)

\* the type of the first match whose surface string is name
FirstTypeOf(name) ==
    LET ms == PatternMatches
        first == Min({ k \in 1..Len(ms) : ms[k].name = name })
    IN  ms[first].entity_type

\* C12: the entities one extract_entities call returns have distinct ids and
\* distinct names, and every surface string the patterns match has exactly one
\* entity, of the type of its first match in pattern order
C12_Deduplicated ==
    x_pc # "idle" =>
        /\ \A j, k \in 1..Len(x_entities) :
               j # k => /\ x_entities[j].id # x_entities[k].id
                        /\ x_entities[j].name # x_entities[k].name
        /\ \A m \in 1..Len(PatternMatches) :
               LET name == PatternMatches[m].name
                   having == { k \in 1..Len(x_entities) : x_entities[k].name = name }
               IN  /\ Cardinality(having) = 1
                   /\ \A k \in having : x_entities[k].entity_type = FirstTypeOf(name)

\* a surface string was matched twice, by patterns of two types
C12_Witness ==
    /\ x_pc # "idle"
    /\ \E j, k \in 1..Len(PatternMatches) :
          /\ j < k
          /\ PatternMatches[j].name = PatternMatches[k].name
          /\ PatternMatches[j].entity_type # PatternMatches[k].entity_type

\* the first case-insensitive occurrence of the name of x_entities[i] in x_text
FirstOccurrence(i) ==
    Find(Lower(x_text), Lower(x_entities[i].name))

\* the pairs of list positions, earlier first, whose two names are found in
\* x_text with first occurrences less than Window characters apart
NearPairs ==
    { p \in (1..Len(x_entities)) \X (1..Len(x_entities)) :
        /\ p[1] < p[2]
        /\ FirstOccurrence(p[1]) # -1
        /\ FirstOccurrence(p[2]) # -1
        /\ Abs(FirstOccurrence(p[1]) - FirstOccurrence(p[2])) < Window }

\* the place of a pair among NearPairs, ordered by first and then second position
RankOf(p) ==
    Cardinality({ q \in NearPairs :
                    q[1] < p[1] \/ (q[1] = p[1] /\ q[2] <= p[2]) })

\* C23: extract_relationships returns one CO_OCCURS relationship for each pair
\* of list positions whose names are both found in the text with first
\* occurrences less than 500 characters apart, and nothing else; its source is
\* the earlier entity, its weight is max(0.3, 1 - d/500) and its confidence is
\* its weight, so both lie in [0.3, 1]; fewer than two entities give no relationship
C23_OnePerNearPair ==
    x_pc = "given" =>
        /\ Len(x_rels) = Cardinality(NearPairs)
        /\ \A p \in NearPairs :
              LET rel == x_rels[RankOf(p)]
                  d == Abs(FirstOccurrence(p[1]) - FirstOccurrence(p[2]))
              IN  /\ rel.source_id = x_entities[p[1]].id
                  /\ rel.target_id = x_entities[p[2]].id
                  /\ rel.relation_type = "CO_OCCURS"
                  /\ rel.weight = (IF Window - d > WeightFloor THEN Window - d
                                   ELSE WeightFloor)
                  /\ rel.confidence = rel.weight
        /\ \A k \in 1..Len(x_rels) :
              /\ WeightFloor <= x_rels[k].weight /\ x_rels[k].weight <= Window
              /\ WeightFloor <= x_rels[k].confidence /\ x_rels[k].confidence <= Window
        /\ Len(x_entities) < 2 => x_rels = << >>

\* the call was given three entities whose names are all in the text, two of
\* them found too far apart, and it returned a relationship for another pair
C23_Witness ==
    /\ x_pc = "given"
    /\ Len(x_entities) = 3
    /\ \A i \in 1..3 : FirstOccurrence(i) # -1
    /\ \E i, j \in 1..3 :
          i < j /\ Abs(FirstOccurrence(i) - FirstOccurrence(j)) >= Window
    /\ x_rels # << >>

----------------------------------------------------------------------------
(* Claims about ConceptClusterer *)

\* C6: without an embedding provider cluster_entities returns one cluster per
\* entity, each holding that entity alone, in input order, for any threshold
C6_SingletonsWithoutProvider ==
    (c_pc = "done" /\ c_provider = NoModel) =>
        /\ ~c_result.raised
        /\ Len(c_result.clusters) = Len(c_entities)
        /\ \A k \in 1..Len(c_entities) : c_result.clusters[k] = << c_entities[k] >>

\* a call without provider on a list of several entities, one of them twice
C6_Witness ==
    /\ c_pc = "done"
    /\ c_provider = NoModel
    /\ Len(c_entities) = MaxEntities
    /\ c_entities[1] = c_entities[MaxEntities]
    /\ c_threshold # DefaultThreshold

\* the provider returns the same vector for every name and never raises
ConstantProvider ==
    /\ c_provider # NoModel
    /\ \E v \in Components : \A n \in ClusterNames : c_provider.embed_query[n] = v

CommonVector ==
    c_provider.embed_query[CHOOSE n \in ClusterNames : TRUE]

OneClusterOfAll ==
    ~c_result.raised /\ c_result.clusters = << c_entities >>

Failed(i) ==
    c_provider.embed_query[c_entities[i].name] = Raise

\* the vector the call used for the entity at list position i
EmbeddingOf(i) ==
    IF Failed(i) THEN ZeroFallback
    ELSE [ dim |-> c_provider.dim, v |-> c_provider.embed_query[c_entities[i].name] ]

\* the entities at positions i and j are similar at the threshold of the call
Similar(i, j) ==
    SimilarityAtLeast(EmbeddingOf(i), EmbeddingOf(j), c_threshold)

\* position i starts a cluster: it is similar to no earlier seed
RECURSIVE IsSeed(_)
IsSeed(i) ==
    \A s \in 1..(i - 1) : IsSeed(s) => ~Similar(s, i)

Seeds ==
    { i \in 1..Len(c_entities) : IsSeed(i) }

\* the positions in the cluster of seed s: s, and the later positions that are
\* similar to s and to no seed before s
MembersOf(s) ==
    { s } \cup { j \in (s + 1)..Len(c_entities) :
                   /\ Similar(s, j)
                   /\ \A r \in Seeds : r < s => ~Similar(r, j) }

\* C24: with an embedding provider the clusters cluster_entities returns are a
\* partition of the input positions, one cluster per seed in the order of the
\* seeds, each cluster being its seed followed in input order by the later
\* positions not in an earlier cluster whose similarity to the seed is at least
\* the threshold; so an earlier seed and a later seed are never similar
C24_SeedClusters ==
    (c_pc = "done" /\ c_provider # NoModel /\ ~c_result.raised) =>
        LET seeds == SortedSeq(Seeds)
            clusters == c_result.clusters
        IN  /\ Len(clusters) = Len(seeds)
            /\ \A k \in 1..Len(seeds) :
                  LET order == SortedSeq(MembersOf(seeds[k]))
                  IN  /\ order[1] = seeds[k]
                      /\ clusters[k] = [ m \in 1..Len(order) |-> c_entities[order[m]] ]
            /\ \A i \in 1..Len(c_entities) :
                  Cardinality({ s \in Seeds : i \in MembersOf(s) }) = 1
            /\ \A r, s \in Seeds : r < s => ~Similar(r, s)

\* a cluster of three was returned whose second and third member are not
\* similar to each other
C24_Witness ==
    /\ c_pc = "done"
    /\ c_provider # NoModel
    /\ ~c_result.raised
    /\ Len(c_entities) = 3
    /\ Len(c_result.clusters) = 1
    /\ ~Similar(2, 3)

\* C25, as claimed: when the provider raises for some entities, cluster_entities
\* does not raise; it returns clusters that hold every input position once, and
\* for a threshold above 0 every entity whose embedding failed is alone in its cluster
C25_AsClaimed ==
    (c_pc = "done" /\ c_provider # NoModel
        /\ \E i \in 1..Len(c_entities) : Failed(i)) =>
        /\ ~c_result.raised
        /\ Len(c_result.clusters) = Cardinality(Seeds)
        /\ \A i \in 1..Len(c_entities) :
              Cardinality({ s \in Seeds : i \in MembersOf(s) }) = 1
        /\ c_threshold[1] > 0 =>
              \A i \in 1..Len(c_entities) :
                  Failed(i) => IsSeed(i) /\ MembersOf(i) = { i }

\* the embed_query calls made so far for an entity id
InvocationsOf(id) ==
    { k \in 1..Len(c_invoked) : c_invoked[k].id = id }

\* what an embed_query call with this name leaves in the cache
VectorFor(name) ==
    IF c_provider.embed_query[name] = Raise THEN ZeroFallback
    ELSE [ dim |-> c_provider.dim, v |-> c_provider.embed_query[name] ]

\* C29: over the cluster_entities calls on one clusterer the provider is invoked
\* at most once for each entity id; every later call uses the vector cached at
\* that invocation, the zero vector of a failed embedding included, also for an
\* entity that has the id under another name
C29_EmbeddedOncePerId ==
    /\ \A id \in { e.id : e \in CachedEntities } : Cardinality(InvocationsOf(id)) <= 1
    /\ c_provider # NoModel =>
          /\ DOMAIN c_cache = { c_invoked[k].id : k \in 1..Len(c_invoked) }
          /\ \A k \in 1..Len(c_invoked) :
                c_cache[c_invoked[k].id] = VectorFor(c_invoked[k].name)
          /\ \A i \in 1..Len(c_entities) : c_entities[i].id \in DOMAIN c_cache

\* a later call was given an entity under another name than the one its id was
\* embedded with, the embedding having failed then and the other name being one
\* the provider embeds
C29_Witness ==
    /\ c_pc = "again"
    /\ c_provider # NoModel
    /\ \E i \in 1..Len(c_entities), k \in 1..Len(c_invoked) :
          /\ c_invoked[k].id = c_entities[i].id
          /\ c_invoked[k].name # c_entities[i].name
          /\ c_provider.embed_query[c_invoked[k].name] = Raise
          /\ c_provider.embed_query[c_entities[i].name] # Raise

\* the name the call gives to cluster i: the caller's, or Concept_<i>
GivenName(i) ==
    IF i \in DOMAIN c_merged.cluster_names THEN c_merged.cluster_names[i]
    ELSE << "C", "o", "n", "c", "e", "p", "t", "_" >> \o Decimal(i)

\* the indices of the clusters given to merge_clusters
ClusterIndices ==
    0..(Len(c_result.clusters) - 1)

\* C20, as claimed: for any clusters and cluster_names the returned map has one
\* entry per input cluster, and cluster i is stored unchanged under
\* cluster_names[i] when present and under Concept_<i> otherwise
C20_AsClaimed ==
    c_pc = "merged" =>
        /\ Cardinality(DOMAIN c_merged.result) = Len(c_result.clusters)
        /\ \A i \in ClusterIndices :
               /\ GivenName(i) \in DOMAIN c_merged.result
               /\ c_merged.result[GivenName(i)] = c_result.clusters[i + 1]

\* C20, amended: the returned map has one entry per distinct name given, each
\* name holding unchanged the last cluster that was given it; so it has one
\* entry per input cluster, cluster i under its name, exactly when the names
\* given are pairwise distinct
C20_OneEntryPerName ==
    c_pc = "merged" =>
        /\ DOMAIN c_merged.result = { GivenName(i) : i \in ClusterIndices }
        /\ \A i \in ClusterIndices :
               (\A j \in ClusterIndices : j > i => GivenName(j) # GivenName(i))
                   => c_merged.result[GivenName(i)] = c_result.clusters[i + 1]
        /\ Cardinality(DOMAIN c_merged.result) = Len(c_result.clusters)
               <=> \A i, j \in ClusterIndices : i # j => GivenName(i) # GivenName(j)

\* clusters were merged under a given name and a fallback name, one of them a
\* cluster of several entities, and two clusters were given one name
C20_Witness ==
    /\ c_pc = "merged"
    /\ \E i, j \in ClusterIndices :
          /\ i \in DOMAIN c_merged.cluster_names
          /\ j \notin DOMAIN c_merged.cluster_names
          /\ Len(c_result.clusters[i + 1]) > 1
    /\ \E i, j \in ClusterIndices : i # j /\ GivenName(i) = GivenName(j)

----------------------------------------------------------------------------
(* Claims about TemporalGraphBuilder *)

\* all records of the index, as a sequence
AllRecords ==
    LET RECURSIVE Cat(_)
        Cat(k) == IF k = 0 THEN << >> ELSE Cat(k - 1) \o temporal_index[t_keys[k]]
    IN  Cat(Len(t_keys))

\* how many positions of the sequence hold the value x
Count(seq, x) ==
    Cardinality({ k \in 1..Len(seq) : seq[k] = x })

RecordsOf(entity_id) ==
    IF entity_id \in DOMAIN temporal_index THEN temporal_index[entity_id] ELSE << >>

\* C8: get_entity_timeline(id) returns one (timestamp, description) entry per
\* record added for the id, in non-decreasing order of the timestamp strings
C8_TimelineSorted ==
    t_call.op = "timeline" =>
        LET result == t_call.result
            records == RecordsOf(t_call.entity_id)
            added == [ k \in 1..Len(records) |->
                         [ timestamp |-> records[k].timestamp,
                           description |-> MentionedIn(records[k].entity) ] ]
        IN  /\ Len(result) = Len(records)
            /\ \A k \in 1..Len(result) : Count(result, result[k]) = Count(added, result[k])
            /\ \A k \in 1..(Len(result) - 1) :
                   StrLE(result[k].timestamp, result[k + 1].timestamp)

\* a timeline of records that were added in decreasing timestamp order
C8_Witness ==
    /\ t_call.op = "timeline"
    /\ Len(t_call.result) >= 2
    /\ LET records == RecordsOf(t_call.entity_id)
       IN  ~StrLE(records[1].timestamp, records[2].timestamp)

\* C9: query_temporal_entities(T, start, end) returns one entity per record of
\* type T with start <= timestamp <= end and nothing else: every entity
\* returned has type T and comes from such a record
C9_OnlyTypeInWindow ==
    t_call.op = "query" =>
        LET result == t_call.result
            matching == { k \in 1..Len(AllRecords) :
                            /\ AllRecords[k].entity.entity_type = t_call.entity_type
                            /\ StrLE(t_call.start_time, AllRecords[k].timestamp)
                            /\ StrLE(AllRecords[k].timestamp, t_call.end_time) }
        IN  /\ Len(result) = Cardinality(matching)
            /\ \A k \in 1..Len(result) :
                   /\ result[k].entity_type = t_call.entity_type
                   /\ \E m \in matching : AllRecords[m].entity = result[k]

\* an id is recorded inside the window under another type and outside the
\* window under the queried type, and the query returned nothing for it
C9_Witness ==
    /\ t_call.op = "query"
    /\ \E a, b \in 1..Len(AllRecords) :
          /\ AllRecords[a].entity.id = AllRecords[b].entity.id
          /\ AllRecords[a].entity.entity_type = t_call.entity_type
          /\ ~StrLE(AllRecords[a].timestamp, t_call.end_time)
          /\ AllRecords[b].entity.entity_type # t_call.entity_type
          /\ StrLE(t_call.start_time, AllRecords[b].timestamp)
          /\ StrLE(AllRecords[b].timestamp, t_call.end_time)
          /\ \A k \in 1..Len(t_call.result) :
                 t_call.result[k].id # AllRecords[a].entity.id

\* the step appended one record to the history of the id of the record's
\* entity and changed no other history and no record that was there
AppendedOne ==
    \E id \in DOMAIN temporal_index' :
        LET before == IF id \in DOMAIN temporal_index THEN temporal_index[id] ELSE << >>
            after == temporal_index'[id]
        IN  /\ DOMAIN temporal_index' = DOMAIN temporal_index \cup { id }
            /\ Len(after) = Len(before) + 1
            /\ SubSeq(after, 1, Len(before)) = before
            /\ after[Len(after)].entity.id = id
            /\ \A other \in DOMAIN temporal_index \ { id } :
                  temporal_index'[other] = temporal_index[other]

\* C26: add_temporal_entity appends exactly one record to the history of the
\* entity's id and leaves every other history and every existing record as it
\* was; query_temporal_entities and get_entity_timeline leave the index as it
\* was, and get_entity_timeline on an id without records returns an empty list
\* and creates no entry for the id
C26_AppendOnly ==
    [][ /\ t_call'.op = "add" => AppendedOne
        /\ t_call'.op \in { "query", "timeline" } =>
              /\ temporal_index' = temporal_index
              /\ t_keys' = t_keys
        /\ (t_call'.op = "timeline" /\ t_call'.entity_id \notin DOMAIN temporal_index) =>
              /\ t_call'.result = << >>
              /\ t_call'.entity_id \notin DOMAIN temporal_index'
      ]_vars

\* the timeline of an id without records was asked for, after two ids got
\* records, one of them several
C26_Witness ==
    /\ t_call.op = "timeline"
    /\ t_call.entity_id \notin DOMAIN temporal_index
    /\ t_call.result = << >>
    /\ Len(t_keys) = 2
    /\ \E id \in DOMAIN temporal_index : Len(temporal_index[id]) > 1

----------------------------------------------------------------------------
(* Claims on the pipeline (Spec) *)

\* the nodes of a database, by label and id
NodeKeys(g) ==
    { << g.nodes[n].label, g.nodes[n].id >> : n \in 1..Len(g.nodes) }

\* the relationships of one type, by the ids of their two nodes
EdgeKeys(g, type) ==
    { << g.nodes[g.rels[r].from].id, g.nodes[g.rels[r].to].id >> :
        r \in { q \in 1..Len(g.rels) : g.rels[q].type = type } }

\* no label and id has two nodes
NoDuplicateNodes(g) ==
    \A m, n \in 1..Len(g.nodes) :
        (g.nodes[m].label = g.nodes[n].label /\ g.nodes[m].id = g.nodes[n].id) => m = n

\* C1, as claimed: when build_graph_from_chunks returns, relationships_created
\* is the number of relationship writes of the call that the database applied
C1_AsClaimed ==
    \A builder \in Builders :
        kb[builder].pc = "done" =>
            kb[builder].stats.relationships_created = kb[builder].persisted

\* C2, as claimed: no failure of a relationship write leaves
\* build_graph_from_chunks, and Neo4jGraphStore.create_relationship never raises
C2_AsClaimed ==
    /\ \A builder \in Builders :
           kb[builder].pc = "raised" => kb[builder].failed_at # "relationship"
    /\ store_call.op = "create_relationship" => ~store_call.raised

\* C3: when build_graph_from_chunks returns, nodes_created is 1 + len(chunks),
\* whatever entity and concept nodes the call wrote
C3_NodesCreated ==
    \A builder \in Builders :
        kb[builder].pc = "done" =>
            kb[builder].stats.nodes_created = 1 + Len(kb[builder].chunks)

\* a call over several chunks returned after writing entity and concept nodes
C3_Witness ==
    \E builder \in Builders :
        /\ kb[builder].pc = "done"
        /\ Len(kb[builder].chunks) >= 2
        /\ \E n \in 1..Len(graph.nodes) : graph.nodes[n].label = "Entity"
        /\ \E n \in 1..Len(graph.nodes) : graph.nodes[n].label = "Concept"
        /\ Len(graph.nodes) > kb[builder].stats.nodes_created

\* the entities extracted in the builder's call that have a node: those
\* _create_entity_node has persisted
PersistedEntities(b) ==
    { e \in { b.all_entities[k] : k \in 1..Len(b.all_entities) } :
        MatchNodes(graph, "Entity", e.id) # {} }

\* C11: get_entity_context on the id of an entity persisted with
\* _create_entity_node returns its name and its type value as persisted; on
\* an id that was never persisted it returns the empty structure
C11_RoundTrip ==
    (store_call.op = "get_entity_context" /\ ~store_call.raised) =>
        /\ \A builder \in Builders : \A e \in PersistedEntities(kb[builder]) :
               e.id = store_call.entity_id =>
                   /\ store_call.result.found
                   /\ store_call.result.entity.name = e.name
                   /\ store_call.result.entity.type = TypeValue[e.entity_type]
        /\ MatchNodes(graph, "Entity", store_call.entity_id) = {}
               <=> store_call.result = EmptyContext

\* the context of a persisted entity with neighbors was returned
C11_Witness ==
    /\ store_call.op = "get_entity_context"
    /\ ~store_call.raised
    /\ store_call.result.found
    /\ store_call.result.neighbors_count > 2
    /\ \E builder \in Builders : \E e \in PersistedEntities(kb[builder]) :
          e.id = store_call.entity_id

\* the errors a statement can end with
Errors ==
    Outcomes \ { "ok" }

\* C17: a constructor whose RETURN 1 fails raises that error and gives no
\* object (no call is ever made on it); every builder and every store that
\* makes a call has had its round trip succeed, so nothing is written to the
\* database before one has
C17_ConstructorVerifies ==
    /\ \A builder \in Builders :
          /\ kb[builder].pc = "no_object" =>
                /\ kb[builder].error \in Errors
                /\ ~kb[builder].verified
                /\ kb[builder].calls = 0
          /\ kb[builder].pc \notin { "new", "no_object" } => kb[builder].verified
    /\ (store_call.op = "__init__" /\ store_call.raised) =>
          store_call.error \in Errors /\ ~store_call.verified
    /\ store_call.op = "create_relationship" => store_call.verified
    /\ graph # EmptyGraph => \E builder \in Builders : kb[builder].verified

\* both constructors have raised: the builder's, and later the store's
C17_Witness ==
    /\ \E builder \in Builders :
          kb[builder].pc = "no_object" /\ kb[builder].error = "DriverError"
    /\ store_call.op = "__init__"
    /\ store_call.raised
    /\ store_call.error = "DriverError"

\* the Concept nodes of cluster cluster_idx of the builder's call
ConceptNodes(b, cluster_idx) ==
    MatchNodes(graph, "Concept", ConceptId(b.document_id, cluster_idx))

\* C18: with clustering enabled, when the call returns the database holds a
\* Concept node for a cluster exactly if the cluster has more than one member,
\* and that node has entity_count = the cluster's size and a CLUSTERS edge to
\* the Entity node of every member
C18_ConceptIffSeveral ==
    \A builder \in Builders :
        (kb[builder].pc = "done" /\ kb[builder].enable_clustering) =>
            \A c \in 1..Len(kb[builder].clusters) :
                LET cluster == kb[builder].clusters[c]
                    concepts == ConceptNodes(kb[builder], c - 1)
                IN  /\ concepts # {} <=> Len(cluster) > 1
                    /\ \A n \in concepts :
                          /\ graph.nodes[n].props.entity_count = Len(cluster)
                          /\ \A k \in 1..Len(cluster) :
                                \E e \in MatchNodes(graph, "Entity", cluster[k].id) :
                                    MatchRels(graph, "CLUSTERS", n, e, NoProps) # {}

\* a call has returned with a cluster of several entities, written as a
\* Concept, and a cluster of one entity
C18_Witness ==
    \E builder \in Builders :
        /\ kb[builder].pc = "done"
        /\ kb[builder].enable_clustering
        /\ \E c, d \in 1..Len(kb[builder].clusters) :
              /\ Len(kb[builder].clusters[c]) > 1
              /\ ConceptNodes(kb[builder], c - 1) # {}
              /\ Len(kb[builder].clusters[d]) = 1

\* C19, as claimed: the entities passed to the clusterer are the union of the
\* entities of the chunks, each id once, so that no cluster (and no Concept's
\* entity_count) counts an entity twice
C19_AsClaimed ==
    \A builder \in Builders :
        (kb[builder].pc \in { "concept", "done" } /\ kb[builder].enable_clustering) =>
            /\ \A j, k \in 1..Len(kb[builder].all_entities) :
                  j # k => kb[builder].all_entities[j].id # kb[builder].all_entities[k].id
            /\ \A c \in 1..Len(kb[builder].clusters) :
                  \A j, k \in 1..Len(kb[builder].clusters[c]) :
                      j # k => kb[builder].clusters[c][j].id # kb[builder].clusters[c][k].id

----------------------------------------------------------------------------
(* Claims on re-runs (SpecRerun) *)

\* the number of entities, and of relationships among them, that the extractor
\* returns for the first n chunks, chunk by chunk
RECURSIVE ExtractedFrom(_, _)
ExtractedFrom(chunks, n) ==
    IF n = 0 THEN [ entities |-> 0, relationships |-> 0 ]
    ELSE LET entities == extract_entities(chunks[n])
             earlier == ExtractedFrom(chunks, n - 1)
         IN  [ entities |-> earlier.entities + Len(entities),
               relationships |-> earlier.relationships
                                 + Len(extract_relationships(chunks[n], entities)) ]

\* the Concept nodes in the database
AllConceptNodes ==
    { n \in 1..Len(graph.nodes) : graph.nodes[n].label = "Concept" }

\* C30: the stats a call returns hold, as entities_extracted and
\* relationships_extracted, the sums over the chunks of what the extractor
\* returned for each chunk, and as clusters_created the number of clusters that
\* cluster_entities returned, singletons included, which is 0 when clustering is
\* disabled or no entity was extracted
C30_RunningTotals ==
    \A builder \in Builders :
        kb[builder].pc = "done" =>
            LET b == kb[builder]
                extracted == ExtractedFrom(b.chunks, Len(b.chunks))
            IN  /\ b.stats.entities_extracted = extracted.entities
                /\ b.stats.relationships_extracted = extracted.relationships
                /\ b.stats.clusters_created =
                      IF b.enable_clustering /\ extracted.entities > 0
                      THEN Len(cluster_entities(b.all_entities, DefaultThreshold,
                                                b.embedding_model,
                                                b.embeddings_cache).clusters)
                      ELSE 0

\* a call returned that extracted the same entities from two chunks and counted
\* them twice, and that counted more clusters than Concept nodes were written
C30_Witness ==
    \E builder \in Builders :
        LET b == kb[builder]
        IN  /\ b.pc = "done"
            /\ Len(b.chunks) = 2
            /\ b.chunks[1] = b.chunks[2]
            /\ b.stats.entities_extracted
                  > Cardinality({ b.all_entities[k].id : k \in 1..Len(b.all_entities) })
            /\ b.stats.relationships_extracted = 2
            /\ b.stats.clusters_created > Cardinality(AllConceptNodes)
            /\ AllConceptNodes # {}

\* the ids of the entities the extractor returned to the call for the chunks
\* before the one at hand: all_entities holds them, followed by the entities of
\* the chunk at hand once its text is extracted
EarlierEntityIds(b, extracted) ==
    LET n == Len(b.all_entities) - (IF extracted THEN Len(b.entities) ELSE 0)
    IN  { b.all_entities[k].id : k \in 1..n }

\* the nodes of the document, of the first n chunks and of the entities given
WrittenNodes(b, n, entity_ids) ==
    { << "Document", b.document_id >> }
    \cup { << "Chunk", ChunkId(b.document_id, j) >> : j \in 0..(n - 1) }
    \cup { << "Entity", id >> : id \in entity_ids }

\* C22: when the driver raises at the write of the document node, of a chunk
\* node or of an entity node of chunk k, the call ends by the exception and
\* returns no stats; the document, the chunks before k with their entities and
\* the relationships applied, and the entities of chunk k before the failing one
\* are in the database beside what it held when the call began, and no later
\* chunk and no Concept node of the call is; so a call that returns has written
\* the document, every chunk and every entity
C22_WrittenBeforeFailure ==
    \A builder \in Builders :
        kb[builder].pc \in { "done", "raised" } =>
        LET b == kb[builder]
            before == b.returned.graph
            co_occurs == { r \in 1..Len(graph.rels) : graph.rels[r].type = "CO_OCCURS" }
        IN  /\ (b.pc = "raised" /\ b.failed_at = "document") =>
                  graph = before
            /\ (b.pc = "raised" /\ b.failed_at = "chunk") =>
                  /\ NodeKeys(graph) =
                        NodeKeys(before)
                        \cup WrittenNodes(b, b.i, EarlierEntityIds(b, FALSE))
                  /\ before = EmptyGraph => Cardinality(co_occurs) = b.persisted
            /\ (b.pc = "raised" /\ b.failed_at = "entity") =>
                  /\ NodeKeys(graph) =
                        NodeKeys(before)
                        \cup WrittenNodes(b, b.i + 1,
                                          EarlierEntityIds(b, TRUE)
                                          \cup { b.entities[k].id : k \in 1..(b.k - 1) })
                  /\ before = EmptyGraph => Cardinality(co_occurs) = b.persisted
            /\ b.pc = "done" =>
                  WrittenNodes(b, Len(b.chunks), IdsOf(b.all_entities))
                      \subseteq NodeKeys(graph)
            /\ NoDuplicateNodes(graph)

\* the write of the second entity of the second chunk failed, after the first
\* chunk's entities and relationship were written
C22_Witness ==
    \E builder \in Builders :
        LET b == kb[builder]
        IN  /\ b.pc = "raised"
            /\ b.failed_at = "entity"
            /\ b.i = 1
            /\ b.k = 2
            /\ b.persisted = 1
            /\ b.enable_clustering
            /\ b.chunks[1] # b.chunks[2]

\* the second call has returned
SecondRunReturned(builder) ==
    kb[builder].pc = "done" /\ kb[builder].calls = 2

\* C13, as claimed: persisting relationships again leaves exactly one edge of
\* a relation type between two nodes, also after a re-run on the same chunks
C13_AsClaimed ==
    \A q, r \in 1..Len(graph.rels) :
        ( /\ graph.rels[q].type = "CO_OCCURS"
          /\ graph.rels[q].type = graph.rels[r].type
          /\ graph.rels[q].from = graph.rels[r].from
          /\ graph.rels[q].to = graph.rels[r].to ) => q = r

C16_AsClaimed ==
    [][ \A builder \in Builders :
          (kb[builder].pc = "entity" /\ kb'[builder].pc = "mentions") =>
              \A n \in MatchNodes(graph, "Entity", kb[builder].entities[kb[builder].k].id) :
                  /\ graph'.nodes[n].props.mention_count > graph.nodes[n].props.mention_count
                  /\ StrLE(graph.nodes[n].props.last_seen, graph'.nodes[n].props.last_seen)
                  /\ graph.nodes[n].props.last_seen # graph'.nodes[n].props.last_seen ]_vars

----------------------------------------------------------------------------
(* Claims on concurrent runs (SpecConcurrent) *)

\* C21: in every interleaving of the builders' statements, a builder that is
\* about to write a relationship has the Entity nodes of its source and of its
\* target in the database; within its call the document node is written
\* before any chunk node, the chunk node before the chunk's entities, and every
\* entity node of the chunk before any relationship of the chunk
C21_EndpointsWritten ==
    \A builder \in TwoBuilders :
        LET b == kb[builder]
        IN  /\ b.pc \in { "chunk", "entity", "mentions", "relationship" } =>
                  MatchNodes(graph, "Document", b.document_id) # {}
            /\ b.pc \in { "entity", "mentions", "relationship" } =>
                  MatchNodes(graph, "Chunk", ChunkId(b.document_id, b.i)) # {}
            /\ b.pc = "relationship" =>
                  /\ \A k \in 1..Len(b.entities) :
                        MatchNodes(graph, "Entity", b.entities[k].id) # {}
                  /\ MatchNodes(graph, "Entity", b.relationships[b.k].source_id) # {}
                  /\ MatchNodes(graph, "Entity", b.relationships[b.k].target_id) # {}

\* one builder is about to write a relationship between two entities while the
\* other builder is still writing the same entities
C21_Witness ==
    \E first \in TwoBuilders, second \in TwoBuilders :
        /\ first # second
        /\ kb[first].pc = "relationship"
        /\ kb[second].pc = "entity"
        /\ kb[second].k = 1
        /\ kb[second].chunks = kb[first].chunks

\* the properties _create_entity_node sets from an entity
UpsertedProps(entity) ==
    [ name |-> entity.name, type |-> TypeValue[entity.entity_type],
      description |-> entity.description, confidence |-> entity.confidence,
      first_seen |-> entity.first_seen, last_seen |-> entity.last_seen,
      mention_count |-> entity.mention_count ]

\* C28, as claimed: when two builders upsert one entity id concurrently, every
\* upsert is one atomic overwrite: once it is applied there is exactly one
\* Entity node for the id and all its properties are those of this upsert, so
\* that after both the node holds the values of the upsert applied last
C28_AsClaimed ==
    [][ \A builder \in TwoBuilders :
            (kb[builder].pc = "entity" /\ kb'[builder].pc = "mentions") =>
                LET e == kb[builder].entities[kb[builder].k]
                    nodes == MatchNodes(graph', "Entity", e.id)
                IN  /\ Cardinality(nodes) = 1
                    /\ \A n \in nodes :
                          \E writer \in TwoBuilders :
                              /\ kb[writer].pc = "entity"
                              /\ kb'[writer].pc = "mentions"
                              /\ graph'.nodes[n].props =
                                    UpsertedProps(kb[writer].entities[kb[writer].k])
      ]_vars

----------------------------------------------------------------------------
(* Claims on the store runs (SpecStore) *)

\* C15, as claimed: create_document_node and create_entity_node are
\* idempotent on id: the database holds at most one Document node per document
\* id and at most one entity node per entity id, whatever calls were repeated
C15_AsClaimed ==
    \A m, n \in 1..Len(graph.nodes) :
        ( /\ graph.nodes[m].id = graph.nodes[n].id
          /\ (graph.nodes[m].label = "Document") = (graph.nodes[n].label = "Document") )
            => m = n

\* the FROM_DOCUMENT edges that leave node n
FromDocumentEdges(n) ==
    { r \in 1..Len(graph.rels) :
        graph.rels[r].type = "FROM_DOCUMENT" /\ graph.rels[r].from = n }

\* C27, as claimed: after any calls of extract_entities_from_chunk, repeated
\* chunk ids and missing documents included, every Chunk node has exactly one
\* FROM_DOCUMENT edge and it leads to a Document node, that of the document
\* named in the call that created the chunk, and its text is not longer than the cap
C27_AsClaimed ==
    \A n \in 1..Len(graph.nodes) :
        graph.nodes[n].label = "Chunk" =>
            /\ Cardinality(FromDocumentEdges(n)) = 1
            /\ \A r \in FromDocumentEdges(n) :
                  /\ graph.nodes[graph.rels[r].to].label = "Document"
                  /\ (store_call.op = "extract_entities_from_chunk"
                        /\ store_call.id = graph.nodes[n].id
                        /\ Cardinality(MatchNodes(graph, "Chunk", store_call.id)) = 1)
                       => graph.nodes[graph.rels[r].to].id = store_call.doc_id
            /\ Len(graph.nodes[n].props.text) <= StoreTextLimit

====
